---- MODULE Spec2Model ----
(***************************************************************************)
(* A model of the telemetry-batch columnar encoder of crates/trace:        *)
(*   - attribute schema inference (arrow/attribute.rs, arrow/schema.rs),   *)
(*   - the dictionary decision and the dictionary key width,               *)
(*   - the row-oriented and the column-oriented encoders (arrow/mod.rs,    *)
(*     arrow/span.rs, arrow/event.rs, arrow/link.rs),                      *)
(*   - deserialize, the statistics probe (arrow/statistics.rs) and the     *)
(*     benchmark loop of main.rs.                                          *)
(*                                                                         *)
(* Seven specifications share the module:                                  *)
(*   SpecInfer  one step per (key, value) pair folded by                   *)
(*              infer_attribute_types;                                     *)
(*   SpecDict   the dictionary decision applied to the counters of a       *)
(*              String column;                                             *)
(*   SpecField  a field-emission helper of arrow/mod.rs applied to a slice *)
(*              of values;                                                 *)
(*   SpecExample  both encoders applied to two-span example batches;       *)
(*   SpecDecode deserialize applied to an envelope;                        *)
(*   SpecBench  main.rs: chunk after chunk, each encoded and decoded by    *)
(*              the two benchmark functions, statistics on or off;         *)
(*   Spec       a batch of spans is read, then encoded by both encoders.   *)
(***************************************************************************)
EXTENDS Integers, Sequences, FiniteSets, TLC

VARIABLES
    attribute_types,  \* SpecInfer: HashMap<String, FieldInfo> being folded
    observed,         \* SpecInfer: the (key, value) pairs folded so far
    string_column,    \* SpecDict: [distinct, non_null_count] of a String column
    dict_out,         \* SpecDict: the physical type chosen by each path
    batch,            \* Spec: the span rows of the batch (Vec<Span>)
    pc,               \* Spec, SpecBench: "read" | "chunk" | "row" | "col" | "done" | "aborted"
    row_out,          \* Spec: outcome of serialize_row_oriented_data_source
    col_out,          \* Spec: outcome of serialize_column_oriented_data_source
    field_source,     \* SpecField: the data slice handed to a field helper
    field_out,        \* SpecField: the fields and columns the helper pushed
    envelope,         \* SpecDecode, SpecBench: the buffer handed to deserialize
    decoded,          \* SpecDecode, SpecBench: what deserialize has read
    chunk,            \* SpecBench: the chunk of spans the reader has yielded
    chunks,           \* SpecBench: number of chunks yielded so far
    stats_enabled,    \* SpecBench: opt.statistics
    reporters         \* SpecBench: the two StatisticsReporter (batches)

vars == <<attribute_types, observed, string_column, dict_out, batch, pc, row_out, col_out,
          field_source, field_out, envelope, decoded, chunk, chunks, stats_enabled,
          reporters>>
inferVars == <<attribute_types, observed>>
dictVars == <<string_column, dict_out>>
encVars == <<batch, pc, row_out, col_out>>
fieldVars == <<field_source, field_out>>
decodeVars == <<envelope, decoded>>
benchVars == <<chunk, chunks, stats_enabled, reporters>>

----------------------------------------------------------------------------
(* Bounds of the model. *)

\* Number of (key, value) pairs folded in SpecInfer.
MaxObserved == 3
\* Width, in bits, standing for the 64 bits of u64 / i64 (TLC integers are
\* 32 bits wide, so the 64-bit ranges are scaled down to this width).
IntBits == 6
\* SpecDict draws distinct-value counts around every power of two up to
\* 2^MaxLog.
MaxLog == 17
\* SpecDict draws non_null_count up to MaxRepeat times the distinct count.
MaxRepeat == 6
\* Spec: largest number of rows (spans + events + links) over the three
\* tables of the batch that is read.
MaxRows == 3

U64Max == 2^IntBits - 1
I64Max == 2^(IntBits - 1) - 1
I64Min == -(2^(IntBits - 1))

Keys == {"k", "j"}

----------------------------------------------------------------------------
(* serde_json::Value.  Every value is a record of the same shape so that   *)
(* any two values compare: kind is the variant, num the numeric payload    *)
(* (a float is counted in halves), str the string payload; the float -0.0  *)
(* is the float of payload 0 with the sign in str.                         *)

JNull == [kind |-> "null", num |-> 0, str |-> ""]
JArray == [kind |-> "array", num |-> 0, str |-> ""]
JObject == [kind |-> "object", num |-> 0, str |-> ""]
JBool(b) == [kind |-> "bool", num |-> IF b THEN 1 ELSE 0, str |-> ""]
\* serde_json::Number is N::PosInt(u64) | N::NegInt(i64), always < 0 | N::Float(f64)
PosInt(n) == [kind |-> "posint", num |-> n, str |-> ""]
NegInt(n) == [kind |-> "negint", num |-> n, str |-> ""]
Float(halves) == [kind |-> "float", num |-> halves, str |-> ""]
NegZero == [kind |-> "float", num |-> 0, str |-> "-"]
JString(s) == [kind |-> "string", num |-> 0, str |-> s]
\* A key that the attribute map does not hold.
Absent == [kind |-> "absent", num |-> 0, str |-> ""]

IsNumber(v) == v.kind \in {"posint", "negint", "float"}

is_u64(v) == v.kind = "posint"
is_i64(v) == (v.kind = "posint" /\ v.num <= I64Max) \/ v.kind = "negint"
is_f64(v) == v.kind = "float"

\* Option<T> results of Number::as_u64 / as_i64 / as_f64 and of
\* Value::as_u64 ... as_str / as_bool: None is modelled by kind "none".
None == [kind |-> "none", num |-> 0, str |-> ""]
as_u64(v) == IF v.kind = "posint" THEN [kind |-> "u64", num |-> v.num, str |-> ""] ELSE None
as_i64(v) ==
    IF is_i64(v) THEN [kind |-> "i64", num |-> v.num, str |-> ""] ELSE None
\* `n as f64` of a u64 or an i64: exact up to the precision of the
\* significand, rounded to the nearest float (ties to even) above it.  The
\* significand is scaled with the integer range: F64Precision bits for
\* integers of IntBits bits, so that, as with 53 and 64 bits, i64::MAX
\* rounds to 2^(IntBits - 1) and u64::MAX to 2^IntBits.
F64Precision == IntBits - 2
RECURSIVE F64Ulp(_)
F64Ulp(n) == IF n < 2^F64Precision THEN 1 ELSE 2 * F64Ulp(n \div 2)
RoundToF64(n) ==
    IF 2 * (n % F64Ulp(n)) > F64Ulp(n)
          \/ (2 * (n % F64Ulp(n)) = F64Ulp(n) /\ (n \div F64Ulp(n)) % 2 = 1)
    THEN ((n \div F64Ulp(n)) + 1) * F64Ulp(n)
    ELSE (n \div F64Ulp(n)) * F64Ulp(n)
AsF64(n) == IF n >= 0 THEN RoundToF64(n) ELSE -RoundToF64(-n)

\* Number::as_f64: the float itself (with the sign of its zero), or the
\* integer converted with `as f64`.
as_f64(v) ==
    IF v.kind \in {"posint", "negint"}
    THEN [kind |-> "f64", num |-> 2 * AsF64(v.num), str |-> ""]
    ELSE IF v.kind = "float" THEN [kind |-> "f64", num |-> v.num, str |-> v.str]
    ELSE None
as_str(v) == IF v.kind = "string" THEN [kind |-> "utf8", num |-> 0, str |-> v.str] ELSE None
as_bool(v) == IF v.kind = "bool" THEN [kind |-> "bool", num |-> v.num, str |-> ""] ELSE None

\* The values drawn by the specifications.
SmallU64 == PosInt(5)
BigU64 == PosInt(I64Max + 1)      \* an unsigned value above the signed range
NegI64 == NegInt(-1)
HalfF64 == Float(1)               \* 0.5
IgnoredValues == {JNull, JArray, JObject}
BoolValues == {JBool(TRUE)}
NumberValues == {SmallU64, BigU64, NegI64, HalfF64}
StringValues == {JString("v"), JString("w")}

----------------------------------------------------------------------------
(* arrow/schema.rs: FieldInfo, and arrow/attribute.rs: infer_attribute_types *)

\* The entry of a key the map does not hold.
NoFieldInfo == [non_null_count |-> 0, field_type |-> "None", dictionary_values |-> {}]

\* match arm Value::Null | Value::Array(_) | Value::Object(_) => {}
IgnoredArm_CountsValue(field_info, value) ==
    IF field_info = NoFieldInfo THEN field_info
    ELSE [field_info EXCEPT !.non_null_count = @ + 1]

\* The same arm creating an entry for the key of an ignored value.
IgnoredArm_InsertsEntry(field_info, value) ==
    IF field_info = NoFieldInfo
    THEN [non_null_count |-> 1, field_type |-> "String", dictionary_values |-> {"a"}]
    ELSE field_info

IgnoredArm(field_info, value) == field_info

\* match arm Value::Bool(_): entry().and_modify(..).or_insert_with(..)
BoolArm(field_info, value) ==
    IF field_info = NoFieldInfo
    THEN [non_null_count |-> 1, field_type |-> "Bool", dictionary_values |-> {}]
    ELSE [field_info EXCEPT
            !.field_type = IF @ # "Bool" THEN "String" ELSE @,
            !.non_null_count = @ + 1]

\* match arm Value::Number(number)
NumberArm(field_info, number) ==
    IF field_info = NoFieldInfo
    THEN [non_null_count |-> 1,
          field_type |-> IF is_u64(number) THEN "U64"
                         ELSE IF is_i64(number) THEN "I64"
                         ELSE "F64",
          dictionary_values |-> {}]
    ELSE [field_info EXCEPT
            !.field_type =
                IF @ = "U64"
                THEN IF is_u64(number) THEN @
                     ELSE IF is_i64(number) THEN "I64"
                     ELSE IF is_f64(number) THEN "F64"
                     ELSE @
                ELSE IF @ = "I64" /\ is_f64(number) THEN "F64"
                ELSE @,
            !.non_null_count = @ + 1]

\* match arm Value::String(_)
StringArm(field_info, value) ==
    IF field_info = NoFieldInfo
    THEN [non_null_count |-> 1, field_type |-> "String", dictionary_values |-> {value.str}]
    ELSE [field_info EXCEPT
            !.dictionary_values = @ \cup {value.str},
            !.non_null_count = @ + 1]

\* The body of the loop `for kv in attributes`: one (key, value) pair.
InferEntry(field_info, value) ==
    CASE value.kind \in {"null", "array", "object"} -> IgnoredArm(field_info, value)
      [] value.kind = "bool" -> BoolArm(field_info, value)
      [] IsNumber(value) -> NumberArm(field_info, value)
      [] value.kind = "string" -> StringArm(field_info, value)

\* infer_attribute_types(attributes, attribute_types).  An attribute map is a
\* function from Keys to values, Absent for the keys it does not hold; the
\* loop visits every held key once, and each visit touches that key's
\* entry only.
infer_attribute_types(attributes, types) ==
    [k \in Keys |->
        IF attributes[k] = Absent THEN types[k] ELSE InferEntry(types[k], attributes[k])]

EmptyTypes == [k \in Keys |-> NoFieldInfo]
EmptyAttributes == [k \in Keys |-> Absent]
OneAttribute(key, value) == [k \in Keys |-> IF k = key THEN value ELSE Absent]

\* Folding a sequence of (key, value) pairs, one single-entry map per row.
RECURSIVE InferPairs(_, _)
InferPairs(pairs, types) ==
    IF pairs = <<>> THEN types
    ELSE InferPairs(Tail(pairs),
                    infer_attribute_types(OneAttribute(Head(pairs).key, Head(pairs).value), types))

----------------------------------------------------------------------------
(* SpecInfer: the inference fold, one (key, value) pair at a time.         *)

InferIdle == attribute_types = EmptyTypes /\ observed = <<>>
DictIdle == string_column = [distinct |-> 0, non_null_count |-> 0]
            /\ dict_out = [row |-> "NotRun", col |-> "NotRun", helper |-> "NotRun"]
NotRun == [status |-> "NotRun"]
EncIdle == batch = <<>> /\ pc = "idle" /\ row_out = NotRun /\ col_out = NotRun
FieldIdle == field_source = <<>> /\ field_out = NotRun
\* A ResourceEvents message whose three buffers are empty.
NoEnvelope == [spans |-> <<>>, events |-> <<>>, links |-> <<>>]
DecodeIdle == envelope = NoEnvelope /\ decoded = NotRun
\* StatisticsReporter::noop() for both reporters, before the first chunk.
NoReporters == [row |-> <<>>, col |-> <<>>]
BenchIdle == chunk = <<>> /\ chunks = 0 /\ stats_enabled = FALSE /\ reporters = NoReporters

InitInfer == InferIdle /\ DictIdle /\ EncIdle /\ FieldIdle /\ DecodeIdle /\ BenchIdle

Observe(key, value) ==
    /\ Len(observed) < MaxObserved
    /\ observed' = Append(observed, [key |-> key, value |-> value])
    /\ attribute_types' = infer_attribute_types(OneAttribute(key, value), attribute_types)
    /\ UNCHANGED <<dictVars, encVars, fieldVars, decodeVars, benchVars>>

ObserveIgnored == \E key \in Keys, value \in IgnoredValues : Observe(key, value)
ObserveBool == \E key \in Keys, value \in BoolValues : Observe(key, value)
ObserveNumber == \E key \in Keys, value \in NumberValues : Observe(key, value)
ObserveString == \E key \in Keys, value \in StringValues : Observe(key, value)

NextInfer == ObserveIgnored \/ ObserveBool \/ ObserveNumber \/ ObserveString

SpecInfer == InitInfer /\ [][NextInfer]_vars

(* Claims settled under SpecInfer. *)

\* The values of `key` folded so far that count (not null, array or object).
RECURSIVE CountedValues(_, _)
CountedValues(pairs, key) ==
    IF pairs = <<>> THEN <<>>
    ELSE LET rest == CountedValues(Tail(pairs), key)
             p == Head(pairs)
         IN IF p.key = key /\ p.value.kind \notin {"null", "array", "object"}
            THEN <<p.value>> \o rest
            ELSE rest

SeqRange(s) == {s[i] : i \in 1..Len(s)}

\* A value can be stored in a column of the type: the converter the build
\* step applies to it (as_u64, as_i64, as_f64) yields a value.
Representable(value, field_type) ==
    CASE field_type = "U64" -> as_u64(value) # None
      [] field_type = "I64" -> as_i64(value) # None
      [] field_type = "F64" -> as_f64(value) # None
      [] OTHER -> FALSE

\* The promotion rules as the claim words them.
ClaimedNumericStep(field_type, number) ==
    IF field_type = "U64"
    THEN IF number.kind = "posint" THEN "U64"
         ELSE IF number.kind = "negint" THEN "I64"
         ELSE "F64"
    ELSE IF field_type = "I64" /\ number.kind = "float" THEN "F64"
    ELSE field_type

RECURSIVE ClaimedNumericType(_, _)
ClaimedNumericType(field_type, numbers) ==
    IF numbers = <<>> THEN field_type
    ELSE ClaimedNumericType(ClaimedNumericStep(field_type, Head(numbers)), Tail(numbers))

FirstNumericType(number) ==
    IF number.kind = "posint" THEN "U64"
    ELSE IF number.kind = "negint" THEN "I64"
    ELSE "F64"

\* C5: numeric promotion. For a key whose counted values are all numbers,
\* the inferred type is the one the promotion rules give (U64 stays U64 on
\* an unsigned value, goes to I64 on a negative integer and to F64 on a
\* float; I64 goes to F64 on a float), and every observed value is
\* representable in that final type.
C5_NumericPromotionRepresentable ==
    \A k \in Keys :
        LET vs == CountedValues(observed, k)
        IN (vs # <<>> /\ \A v \in SeqRange(vs) : IsNumber(v)) =>
              /\ attribute_types[k].field_type
                    = ClaimedNumericType(FirstNumericType(Head(vs)), Tail(vs))
              /\ \A v \in SeqRange(vs) : Representable(v, attribute_types[k].field_type)

\* C6: Bool promotes to String. For a key whose first counted value is a
\* Bool (so its state is Bool) and that later observes a counted value that
\* is not a Bool, the inferred type is String.
C6_BoolThenOtherIsString ==
    \A k \in Keys :
        LET vs == CountedValues(observed, k)
        IN (vs # <<>> /\ Head(vs).kind = "bool"
                /\ \E v \in SeqRange(vs) : v.kind # "bool") =>
              attribute_types[k].field_type = "String"

\* The pairs whose value counts, in order.
RECURSIVE CountedPairs(_)
CountedPairs(pairs) ==
    IF pairs = <<>> THEN <<>>
    ELSE IF Head(pairs).value.kind \in {"null", "array", "object"}
         THEN CountedPairs(Tail(pairs))
         ELSE <<Head(pairs)>> \o CountedPairs(Tail(pairs))

\* C7: null, array and object values leave the inference state unchanged.
\* The state reached after any sequence of values is the state reached
\* by the same sequence with the null, array and object values removed: no
\* entry created, no type changed, no count incremented, no string added.
C7_IgnoredValuesLeaveStateUnchanged ==
    attribute_types = InferPairs(CountedPairs(observed), EmptyTypes)

\* C7 witness: an ignored value was folded after a counted value of the same
\* key, and an ignored value was folded for a key that has no entry.
C7_Witness ==
    /\ Len(observed) = 3
    /\ observed[1].value.kind \notin {"null", "array", "object"}
    /\ observed[2].key = observed[1].key
    /\ observed[2].value.kind \in {"null", "array", "object"}
    /\ observed[3].key # observed[1].key
    /\ observed[3].value.kind \in {"null", "array", "object"}
    /\ attribute_types[observed[3].key] = NoFieldInfo
    /\ attribute_types[observed[1].key].non_null_count = 1

IndexPermutations(n) ==
    {f \in [1..n -> 1..n] : \A i, j \in 1..n : i # j => f[i] # f[j]}

Permuted(s, f) == [i \in 1..Len(s) |-> s[f[i]]]

\* C8: the inferred type does not depend on the order of the rows. Folding
\* any permutation of the observed pairs yields the same type for every
\* key, and a key that observed both a number and a string has type String.
C8_InferenceOrderIndependent ==
    /\ \A f \in IndexPermutations(Len(observed)) : \A k \in Keys :
          InferPairs(Permuted(observed, f), EmptyTypes)[k].field_type
              = attribute_types[k].field_type
    /\ \A k \in Keys :
          LET vs == SeqRange(CountedValues(observed, k))
          IN ((\E v \in vs : IsNumber(v)) /\ (\E v \in vs : v.kind = "string")) =>
                attribute_types[k].field_type = "String"

----------------------------------------------------------------------------
(* The dictionary decision: arrow/schema.rs FieldInfo::is_dictionary,      *)
(* arrow/attribute.rs min_num_bits_to_represent, the String arm of         *)
(* add_attribute_fields / add_attribute_columns (row-oriented path) and    *)
(* the StringColumn arm of attribute_fields (column-oriented path), and    *)
(* arrow/mod.rs string_nullable_field.                                     *)

Dict8 == "Dictionary(UInt8, Utf8)"
Dict16 == "Dictionary(UInt16, Utf8)"
Dict32 == "Dictionary(UInt32, Utf8)"
DictionaryTypes == {Dict8, Dict16, Dict32}
KeyWidth(data_type) ==
    CASE data_type = Dict8 -> 8 [] data_type = Dict16 -> 16 [] data_type = Dict32 -> 32

RECURSIVE BitLength(_)
BitLength(x) == IF x = 0 THEN 0 ELSE 1 + BitLength(x \div 2)

\* The largest power of two that x holds: floor(log2(x)).
min_num_bits_to_represent_FloorLog2(x) == BitLength(x) - 1

\* num_bits::<usize>() as u32 - x.leading_zeros(): the number of bits of x.
\* The function starts with assert!(x > 0), see MinNumBitsPanics.
min_num_bits_to_represent(x) == BitLength(x)
MinNumBitsPanics(x) == ~(x > 0)

\* The ratio compared with 0.4.
is_dictionary_TwoFifths(distinct, non_null_count) == 5 * distinct < 2 * non_null_count

\* FieldInfo::is_dictionary on the two counters it reads:
\* (dictionary_values.len() as f64 / non_null_count as f64) < 0.2.
\* Both counts are far below 2^53, so the quotient is the correctly rounded
\* ratio and compares with 0.2 as the exact ratio does with 1/5; 0/0 is NaN
\* and len/0 is +inf, neither is below 0.2.
is_dictionary(distinct, non_null_count) == 5 * distinct < non_null_count

\* add_attribute_fields, arm FieldType::String: the data type of the field
\* ("panic" when the assertion of min_num_bits_to_represent fails).
\* add_attribute_columns picks the builder with the same tests.
StringFieldType(distinct, non_null_count) ==
    IF is_dictionary(distinct, non_null_count)
    THEN IF MinNumBitsPanics(distinct) THEN "panic"
         ELSE LET min_num_bits == min_num_bits_to_represent(distinct)
              IN IF min_num_bits <= 8 THEN Dict8
                 ELSE IF min_num_bits <= 16 THEN Dict16
                 ELSE Dict32
    ELSE "Utf8"

\* attribute_fields, arm DataColumn::StringColumn: the counters are taken
\* from the column's values, then the same decision with its own threshold.
ColumnRatioBelowThreshold(len, non_null_count) == 5 * len < non_null_count

StringColumnType(distinct, non_null_count) ==
    IF ColumnRatioBelowThreshold(distinct, non_null_count)
    THEN IF MinNumBitsPanics(distinct) THEN "panic"
         ELSE LET min_num_bits == min_num_bits_to_represent(distinct)
              IN IF min_num_bits <= 8 THEN Dict8
                 ELSE IF min_num_bits <= 16 THEN Dict16
                 ELSE Dict32
    ELSE "Utf8"

\* string_nullable_field on the counters it takes from its data: nothing
\* is pushed ("omitted") without a distinct string; a dictionary needs
\* min_num_bits <= 16 as well as a ratio below 0.2.
StringNullableFieldType(distinct, non_null_count) ==
    IF distinct = 0 THEN "omitted"
    ELSE IF min_num_bits_to_represent(distinct) <= 16 /\ 5 * distinct < non_null_count
    THEN IF min_num_bits_to_represent(distinct) <= 8 THEN Dict8 ELSE Dict16
    ELSE "Utf8"

----------------------------------------------------------------------------
(* SpecDict: the decision applied to the counters of one String column.    *)

\* Distinct-value counts: 0, and the neighbours of every power of two.
DistinctChoices ==
    {0} \cup {d \in {2^b + o : b \in 0..MaxLog, o \in {-1, 0, 1}} : d >= 1}

\* non_null_count for a distinct count: its multiples (ratio 1, 1/2, ...),
\* and the values around the ratios 0.2 and 0.4.  With no distinct string
\* the column is empty (0), or got its String type from a Bool observed
\* after a number (2 or more counted values, none of them a string).
CountChoices(d) ==
    IF d = 0 THEN {0, 2, 3}
    ELSE {d * m : m \in 1..MaxRepeat}
            \cup {5 * d - 1, 5 * d + 1, (5 * d) \div 2, (5 * d) \div 2 + 1}

InitDict ==
    /\ string_column \in
          UNION {{[distinct |-> d, non_null_count |-> n] : n \in CountChoices(d)}
                    : d \in DistinctChoices}
    /\ string_column.non_null_count >= string_column.distinct
    /\ dict_out = [row |-> "NotRun", col |-> "NotRun", helper |-> "NotRun"]
    /\ InferIdle /\ EncIdle /\ FieldIdle /\ DecodeIdle /\ BenchIdle

\* Row-oriented path: add_attribute_fields on a FieldInfo of type String.
\* Such an entry counts at least one value, and at least two when it holds
\* no string.
DecideRowOriented ==
    /\ dict_out.row = "NotRun"
    /\ string_column.non_null_count >= 1
    /\ string_column.distinct = 0 => string_column.non_null_count >= 2
    /\ dict_out' = [dict_out EXCEPT
            !.row = StringFieldType(string_column.distinct, string_column.non_null_count)]
    /\ UNCHANGED <<string_column, inferVars, encVars, fieldVars, decodeVars, benchVars>>

\* Column-oriented path: attribute_fields on a StringColumn; its non-null
\* values are strings, so a column without a distinct string has no value.
DecideColumnOriented ==
    /\ dict_out.col = "NotRun"
    /\ string_column.distinct = 0 => string_column.non_null_count = 0
    /\ dict_out' = [dict_out EXCEPT
            !.col = StringColumnType(string_column.distinct, string_column.non_null_count)]
    /\ UNCHANGED <<string_column, inferVars, encVars, fieldVars, decodeVars, benchVars>>

\* string_nullable_field on a slice of Option<String>: as in a StringColumn
\* every non-null value is a string.
DecideStringNullableField ==
    /\ dict_out.helper = "NotRun"
    /\ string_column.distinct = 0 => string_column.non_null_count = 0
    /\ dict_out' = [dict_out EXCEPT
            !.helper = StringNullableFieldType(string_column.distinct,
                                               string_column.non_null_count)]
    /\ UNCHANGED <<string_column, inferVars, encVars, fieldVars, decodeVars, benchVars>>

NextDict == DecideRowOriented \/ DecideColumnOriented \/ DecideStringNullableField

SpecDict == InitDict /\ [][NextDict]_vars

(* Claims settled under SpecDict. *)

Emitted(data_type) == data_type \notin {"NotRun", "panic"}

\* C9 as stated: a String column is dictionary-encoded iff the ratio of
\* distinct values to non-null values is below 0.4 in the row-oriented path
\* and below 0.2 in the column-oriented path, and is plain UTF-8 otherwise.
C9_ThresholdsAsStated ==
    LET d == string_column.distinct
        n == string_column.non_null_count
    IN /\ Emitted(dict_out.row) =>
            /\ dict_out.row \in DictionaryTypes <=> 5 * d < 2 * n
            /\ dict_out.row \notin DictionaryTypes => dict_out.row = "Utf8"
       /\ Emitted(dict_out.col) =>
            /\ dict_out.col \in DictionaryTypes <=> 5 * d < n
            /\ dict_out.col \notin DictionaryTypes => dict_out.col = "Utf8"

\* C9 amended: in both paths a String column is dictionary-encoded iff it
\* has a distinct string and |distinct| / non_null_count < 0.2, and is plain
\* UTF-8 iff the ratio is not below 0.2; with no distinct string and a
\* ratio below 0.2 the row-oriented path emits nothing (the assertion of
\* min_num_bits_to_represent fails).
C9_DictionaryBelowOneFifth ==
    LET d == string_column.distinct
        n == string_column.non_null_count
    IN /\ dict_out.row # "NotRun" =>
            /\ dict_out.row \in DictionaryTypes <=> (d >= 1 /\ 5 * d < n)
            /\ dict_out.row = "Utf8" <=> ~(5 * d < n)
            /\ dict_out.row = "panic" <=> (d = 0 /\ 5 * d < n)
       /\ dict_out.col # "NotRun" =>
            /\ dict_out.col \in DictionaryTypes <=> (d >= 1 /\ 5 * d < n)
            /\ dict_out.col = "Utf8" <=> ~(5 * d < n)

\* C9 witness: a ratio between 0.2 and 0.4 decided by both paths, plain
\* UTF-8 in both.
C9_Witness ==
    /\ string_column = [distinct |-> 1, non_null_count |-> 3]
    /\ dict_out.row = "Utf8"
    /\ dict_out.col = "Utf8"

\* ceil(log2(d)) for d >= 1: the number of bits of d - 1.
CeilLog2(d) == BitLength(d - 1)

SmallestWidth(d) ==
    IF CeilLog2(d) <= 8 THEN 8 ELSE IF CeilLog2(d) <= 16 THEN 16 ELSE 32

\* C10: the key width of a dictionary-encoded column is the smallest W in
\* {8, 16, 32} with ceil(log2(|distinct|)) <= W (256 distinct values get
\* 8-bit keys, 65536 get 16-bit keys), in both paths.
C10_SmallestKeyWidth ==
    /\ dict_out.row \in DictionaryTypes =>
          KeyWidth(dict_out.row) = SmallestWidth(string_column.distinct)
    /\ dict_out.col \in DictionaryTypes =>
          KeyWidth(dict_out.col) = SmallestWidth(string_column.distinct)

\* C11: the key width of every emitted dictionary-encoded string column is
\* at least ceil(log2(|distinct|)) bits, in the row-oriented path, in the
\* column-oriented path and in string_nullable_field, so that every
\* dictionary index 0..|distinct|-1 fits in the key type.
C11_KeyWidthHoldsEveryIndex ==
    \A path \in {"row", "col", "helper"} :
        dict_out[path] \in DictionaryTypes =>
            /\ CeilLog2(string_column.distinct) <= KeyWidth(dict_out[path])
            /\ KeyWidth(dict_out[path]) < 32 =>
                  string_column.distinct - 1 <= 2^KeyWidth(dict_out[path]) - 1

\* C11 witness: the three paths have decided on 8-bit keys for 255 distinct
\* strings and on wider keys for 256.
C11_Witness ==
    \/ /\ string_column.distinct = 255
       /\ \A path \in {"row", "col", "helper"} : dict_out[path] = Dict8
    \/ /\ string_column.distinct = 256
       /\ \A path \in {"row", "col", "helper"} : dict_out[path] = Dict16

----------------------------------------------------------------------------
(* common/src/lib.rs: Span, Event, Link.  An Option<T> field holds None or *)
(* the value; Option<Attributes> and Option<Vec<..>> are records with an   *)
(* is_some flag so that they compare with one another.                     *)

U64Cell(n) == [kind |-> "u64", num |-> n, str |-> ""]
U32Cell(n) == [kind |-> "u32", num |-> n, str |-> ""]
I32Value(n) == [kind |-> "i32", num |-> n, str |-> ""]
Utf8Cell(s) == [kind |-> "utf8", num |-> 0, str |-> s]
BinaryCell(s) == [kind |-> "binary", num |-> 0, str |-> s]
\* What append_null leaves in a column.
NullCell == [kind |-> "null", num |-> 0, str |-> ""]
\* A failed expect / unwrap while a column is built.
PanicCell == [kind |-> "panic", num |-> 0, str |-> ""]

SomeAttributes(map) == [is_some |-> TRUE, map |-> map]
NoAttributes == [is_some |-> FALSE, map |-> EmptyAttributes]

\* A span as the reader yields it: either only its required fields
\* (full = FALSE) or every optional field too, with empty event and link
\* arrays (full = TRUE).
NewSpan(attributes, full) ==
    [trace_id |-> "T", span_id |-> "S",
     trace_state |-> IF full THEN Utf8Cell("ts") ELSE None,
     parent_span_id |-> IF full THEN BinaryCell("P") ELSE None,
     name |-> "n",
     kind |-> IF full THEN I32Value(2) ELSE None,
     start_time_unix_nano |-> 1,
     end_time_unix_nano |-> IF full THEN U64Cell(2) ELSE None,
     attributes |-> attributes,
     dropped_attributes_count |-> IF full THEN U32Cell(0) ELSE None,
     events |-> [is_some |-> full, items |-> <<>>],
     dropped_events_count |-> IF full THEN U32Cell(0) ELSE None,
     links |-> [is_some |-> full, items |-> <<>>],
     dropped_links_count |-> IF full THEN U32Cell(0) ELSE None]

NewEvent(attributes) ==
    [time_unix_nano |-> 3, name |-> "e", attributes |-> attributes,
     dropped_attributes_count |-> None]

NewLink(attributes) ==
    [trace_id |-> "LT", span_id |-> "LS", trace_state |-> None,
     attributes |-> attributes, dropped_attributes_count |-> None]

\* The attribute maps drawn for spans and for their events and links: no
\* map, an empty map, a null, an array, a bool, a number (small, above the
\* signed range, negative) or a string under "k", a number under "j", and
\* numbers under both keys.
SpanAttributeChoices ==
    {NoAttributes}
        \cup {SomeAttributes(OneAttribute("k", x)) :
                x \in {Absent, JNull, JArray, JBool(TRUE), SmallU64, BigU64, NegI64,
                       JString("v")}}
        \cup {SomeAttributes(OneAttribute("j", SmallU64)),
              SomeAttributes([key \in Keys |-> SmallU64])}
ChildAttributeChoices ==
    {OneAttribute("k", x) : x \in {Absent, SmallU64, JString("v")}}

\* The spans the reader yields: with only the required fields and any of
\* the attribute maps, with every optional field and no map or a number, or
\* with every optional field and a negative kind.
SpanChoices ==
    {NewSpan(attributes, FALSE) : attributes \in SpanAttributeChoices}
        \cup {NewSpan(attributes, TRUE) :
                attributes \in {NoAttributes, SomeAttributes(OneAttribute("k", SmallU64))}}
        \cup {[NewSpan(NoAttributes, TRUE) EXCEPT !.kind = I32Value(-1)]}

MapSeq(s, F(_)) == [i \in 1..Len(s) |-> F(s[i])]

RECURSIVE SumSeq(_)
SumSeq(s) == IF s = <<>> THEN 0 ELSE Head(s) + SumSeq(Tail(s))

EventCountOf(span) == Len(span.events.items)
LinkCountOf(span) == Len(span.links.items)
TotalEvents(spans) == SumSeq(MapSeq(spans, EventCountOf))
TotalLinks(spans) == SumSeq(MapSeq(spans, LinkCountOf))
\* The rows of the three tables of a batch: its spans, events and links.
\* The code has no such count (a chunk of the input is measured in spans);
\* it bounds the inputs that are read and numbers their rows.
TotalRows(spans) == Len(spans) + TotalEvents(spans) + TotalLinks(spans)

----------------------------------------------------------------------------
(* Inference over the three tables of a batch (arrow/attribute.rs).        *)

\* Folds infer_attribute_types over the rows that hold an attribute map.
RECURSIVE InferRows(_, _)
InferRows(rows, types) ==
    IF rows = <<>> THEN types
    ELSE InferRows(Tail(rows),
                   IF Head(rows).is_some
                   THEN infer_attribute_types(Head(rows).map, types)
                   ELSE types)

SpanAttributesOf(span) == span.attributes
ChildAttributesOf(child) == SomeAttributes(child.attributes)

\* The index counted after the filter: among the spans that hold events or
\* links only.
EnumerateIndex_AmongParents(spans, i) ==
    Cardinality({j \in 1..(i - 1) : spans[j].events.is_some \/ spans[j].links.is_some})

\* spans.iter().enumerate() as seen by an event or a link of span number i
\* (1-based here): the 0-based index of the span in the batch.
EnumerateIndex(spans, i) == i - 1

\* The children of the batch gathered from the last span to the first.
RECURSIVE FlatMapChildren_LastSpanFirst(_, _, _)
FlatMapChildren_LastSpanFirst(spans, children, i) ==
    IF i > Len(spans) THEN <<>>
    ELSE FlatMapChildren_LastSpanFirst(spans, children, i + 1)
            \o [j \in 1..Len(children[i].items) |->
                    [id |-> i - 1, item |-> children[i].items[j]]]

\* spans.iter().enumerate().filter(|(_, span)| <children>.is_some())
\* .flat_map(|(id, span)| <children>.iter().map(move |child| (id, child))),
\* as written for the events (event.rs) and for the links (link.rs):
\* children[i] is the Option<Vec<..>> of span number i.
RECURSIVE FlatMapChildren(_, _, _)
FlatMapChildren(spans, children, i) ==
    IF i > Len(spans) THEN <<>>
    ELSE (IF children[i].is_some
          THEN [j \in 1..Len(children[i].items) |->
                    [id |-> EnumerateIndex(spans, i), item |-> children[i].items[j]]]
          ELSE <<>>) \o FlatMapChildren(spans, children, i + 1)

EventsOf(span) == span.events
LinksOf(span) == span.links

\* The (id, event) pairs and the (id, link) pairs of the batch.
EventRows(spans, i) == FlatMapChildren(spans, MapSeq(spans, EventsOf), i)
LinkRows(spans, i) == FlatMapChildren(spans, MapSeq(spans, LinksOf), i)

RowItemAttributes(row) == SomeAttributes(row.item.attributes)

infer_span_attribute_schema(spans) == InferRows(MapSeq(spans, SpanAttributesOf), EmptyTypes)
\* (event_count, attribute_types) and (link_count, attribute_types)
infer_event_attribute_schema(spans) ==
    [count |-> Len(EventRows(spans, 1)),
     types |-> InferRows(MapSeq(EventRows(spans, 1), RowItemAttributes), EmptyTypes)]
infer_link_attribute_schema(spans) ==
    [count |-> Len(LinkRows(spans, 1)),
     types |-> InferRows(MapSeq(LinkRows(spans, 1), RowItemAttributes), EmptyTypes)]

\* The iteration orders a HashMap of the inferred keys can have (the hasher
\* is seeded at random; one map keeps one order).
InferredKeys(types) == {k \in Keys : types[k] # NoFieldInfo}
KeyOrders(keys) ==
    {o \in [1..Cardinality(keys) -> keys] :
        \A i, j \in 1..Cardinality(keys) : i # j => o[i] # o[j]}

----------------------------------------------------------------------------
(* Schemas, columns and record batches.                                    *)

Field(name, data_type, nullable) ==
    [name |-> name, data_type |-> data_type, nullable |-> nullable]
Column(data_type, values) == [data_type |-> data_type, values |-> values]
EmptyTable == [built |-> FALSE, fields |-> <<>>, columns |-> <<>>]
Table(fields, columns) == [built |-> TRUE, fields |-> fields, columns |-> columns]

OptionCell(option) == IF option = None THEN NullCell ELSE option

\* The physical types ColumnsStatistics::report has an arm for.
ReportedTypes ==
    {"Boolean", "Int8", "Int32", "Int64", "UInt8", "UInt32", "UInt64", "Float64",
     "Binary", "Utf8"} \cup DictionaryTypes

\* The probe with no arm for Boolean columns.
ReportPanics_NoBooleanArm(enabled, fields, columns) ==
    enabled /\ \E i \in 1..Len(fields) : fields[i].data_type = "Boolean"

\* ColumnsStatistics::report(schema, array_data) panics: only when enabled,
\* on fields.len() != array_data.len(), on a type without an arm, or on
\* downcast_ref::<..>().unwrap() of an array that is not of the field's type.
ReportPanics(enabled, fields, columns) ==
    /\ enabled
    /\ \/ Len(fields) # Len(columns)
       \/ \E i \in 1..Len(fields) :
             \/ fields[i].data_type \notin ReportedTypes
             \/ columns[i].data_type # fields[i].data_type

\* A constructor that does not compare the lengths of the columns.
RecordBatchTryNew_NoLengthCheck(fields, columns) ==
    IF /\ Len(columns) > 0
       /\ Len(fields) = Len(columns)
       /\ \A i \in 1..Len(columns) : columns[i].data_type = fields[i].data_type
    THEN "ok"
    ELSE "error"

\* RecordBatch::try_new(schema, columns): an error unless there is a
\* column, one column per field, all columns of one length and each of its
\* field's type.
RecordBatchTryNew(fields, columns) ==
    IF /\ Len(columns) > 0
       /\ Len(fields) = Len(columns)
       /\ \A i \in 1..Len(columns) :
             /\ Len(columns[i].values) = Len(columns[1].values)
             /\ columns[i].data_type = fields[i].data_type
    THEN "ok"
    ELSE "error"

\* add_attribute_fields: one nullable field per entry, in the map's order.
AttributeDataType(field_info) ==
    CASE field_info.field_type = "U64" -> "UInt64"
      [] field_info.field_type = "I64" -> "Int64"
      [] field_info.field_type = "F64" -> "Float64"
      [] field_info.field_type = "Bool" -> "Boolean"
      [] field_info.field_type = "String" ->
            StringFieldType(Cardinality(field_info.dictionary_values),
                            field_info.non_null_count)

add_attribute_fields(types, order) ==
    [i \in 1..Len(order) |->
        Field("attributes_" \o order[i], AttributeDataType(types[order[i]]), TRUE)]

FieldsPanic(fields) == \E i \in 1..Len(fields) : fields[i].data_type = "panic"

\* build_primitive_array and the String / Bool arms of
\* add_attribute_columns: the cell appended for one row.
NumberCell(number, field_type) ==
    LET converted == CASE field_type = "U64" -> as_u64(number)
                       [] field_type = "I64" -> as_i64(number)
                       [] field_type = "F64" -> as_f64(number)
    IN \* .expect("invalid attribute type inference")
       IF converted = None THEN PanicCell ELSE converted

AttributeCell(attributes, key, field_type) ==
    IF ~attributes.is_some THEN NullCell
    ELSE IF attributes.map[key] = Absent THEN NullCell
    ELSE LET value == attributes.map[key]
         IN CASE field_type \in {"U64", "I64", "F64"} ->
                    IF IsNumber(value) THEN NumberCell(value, field_type) ELSE NullCell
              [] field_type = "String" ->
                    IF value.kind = "string" THEN Utf8Cell(value.str) ELSE NullCell
              [] field_type = "Bool" ->
                    IF value.kind = "bool" THEN as_bool(value) ELSE NullCell

\* The columns pushed in the reverse of the order of the fields.
add_attribute_columns_ReversedOrder(rows, types, order) ==
    [i \in 1..Len(order) |->
        Column(AttributeDataType(types[order[Len(order) + 1 - i]]),
               [r \in 1..Len(rows) |->
                    AttributeCell(rows[r], order[Len(order) + 1 - i],
                                  types[order[Len(order) + 1 - i]].field_type)])]

\* add_attribute_columns(attributes, schema, columns): one column per entry
\* of schema.attribute_fields, in the map's order, one cell per row.
add_attribute_columns(rows, types, order) ==
    [i \in 1..Len(order) |->
        Column(AttributeDataType(types[order[i]]),
               [r \in 1..Len(rows) |->
                    AttributeCell(rows[r], order[i], types[order[i]].field_type)])]

ColumnsPanic(columns) ==
    \E i \in 1..Len(columns) :
        \/ columns[i].data_type = "panic"
        \/ \E r \in 1..Len(columns[i].values) : columns[i].values[r] = PanicCell

----------------------------------------------------------------------------
(* The row-oriented encoder: arrow/mod.rs                                  *)
(* serialize_row_oriented_data_source, arrow/span.rs, arrow/event.rs and   *)
(* arrow/link.rs (infer_*_schema, serialize_*_from_row_oriented_..).       *)

\* `value as u32` of an i32 (or of a u8), as the cell appended to a UInt32
\* column: the value itself, or 2^32 + n for a negative n.  The integers
\* of the checker stop at 2^31 - 1, so a value of 2^31 or more is written
\* as the cell whose str is "+2^31" and whose num is the value minus 2^31.
AsU32(n) ==
    IF n >= 0 THEN U32Cell(n)
    ELSE [kind |-> "u32", num |-> (n + 2^30) + 2^30, str |-> "+2^31"]
\* `v as u8` of an i32: the low eight bits.
AsU8(n) == n % 256

SpanFixedFields ==
    <<Field("start_time_unix_nano", "UInt64", FALSE),
      Field("end_time_unix_nano", "UInt64", TRUE),
      Field("trace_id", "Binary", FALSE),
      Field("span_id", "Binary", FALSE),
      Field("trace_state", "Utf8", TRUE),
      Field("parent_span_id", "Binary", TRUE),
      Field("name", "Utf8", FALSE),
      Field("kind", "UInt32", TRUE),
      Field("dropped_attributes_count", "UInt32", TRUE),
      Field("dropped_events_count", "UInt32", TRUE),
      Field("dropped_links_count", "UInt32", TRUE)>>

EventFixedFields ==
    <<Field("id", "UInt32", FALSE),
      Field("time_unix_nano", "UInt64", FALSE),
      Field("name", "Utf8", FALSE),
      Field("dropped_attributes_count", "UInt32", TRUE)>>

LinkFixedFields ==
    <<Field("id", "UInt32", FALSE),
      Field("trace_id", "Utf8", FALSE),
      Field("span_id", "Utf8", FALSE),
      Field("trace_state", "Utf8", TRUE),
      Field("dropped_attributes_count", "UInt32", TRUE)>>

\* infer_span_schema(spans, gen_id_column): the fields of the schema.
infer_span_schema(types, order, gen_id_column) ==
    SpanFixedFields
        \o (IF gen_id_column THEN <<Field("id", "UInt32", FALSE)>> ELSE <<>>)
        \o add_attribute_fields(types, order)

\* infer_event_schema / infer_link_schema: the fields of the schema.
infer_event_schema(types, order) == EventFixedFields \o add_attribute_fields(types, order)
infer_link_schema(types, order) == LinkFixedFields \o add_attribute_fields(types, order)

SpanKindCell(span) ==
    IF span.kind = None THEN NullCell ELSE AsU32(span.kind.num)

\* The fixed columns built by serialize_spans_from_row_oriented_data_source.
RowSpanFixedColumns(spans, gen_id_column) ==
    <<Column("UInt64", [i \in 1..Len(spans) |-> U64Cell(spans[i].start_time_unix_nano)]),
      Column("UInt64", [i \in 1..Len(spans) |-> OptionCell(spans[i].end_time_unix_nano)]),
      Column("Binary", [i \in 1..Len(spans) |-> BinaryCell(spans[i].trace_id)]),
      Column("Binary", [i \in 1..Len(spans) |-> BinaryCell(spans[i].span_id)]),
      Column("Utf8", [i \in 1..Len(spans) |-> OptionCell(spans[i].trace_state)]),
      Column("Binary", [i \in 1..Len(spans) |-> OptionCell(spans[i].parent_span_id)]),
      Column("Utf8", [i \in 1..Len(spans) |-> Utf8Cell(spans[i].name)]),
      Column("UInt32", [i \in 1..Len(spans) |-> SpanKindCell(spans[i])]),
      Column("UInt32", [i \in 1..Len(spans) |-> OptionCell(spans[i].dropped_attributes_count)]),
      Column("UInt32", [i \in 1..Len(spans) |-> OptionCell(spans[i].dropped_events_count)]),
      Column("UInt32", [i \in 1..Len(spans) |-> OptionCell(spans[i].dropped_links_count)])>>
        \o (IF gen_id_column
            THEN <<Column("UInt32", [i \in 1..Len(spans) |-> U32Cell(i - 1)])>>
            ELSE <<>>)

\* The fixed columns built by serialize_events_from_row_oriented_data_source.
RowEventFixedColumns(events) ==
    <<Column("UInt32", [r \in 1..Len(events) |-> U32Cell(events[r].id)]),
      Column("UInt64", [r \in 1..Len(events) |-> U64Cell(events[r].item.time_unix_nano)]),
      Column("Utf8", [r \in 1..Len(events) |-> Utf8Cell(events[r].item.name)]),
      Column("UInt32",
             [r \in 1..Len(events) |-> OptionCell(events[r].item.dropped_attributes_count)])>>

\* The fixed columns built by serialize_links_from_row_oriented_data_source.
RowLinkFixedColumns(links) ==
    <<Column("UInt32", [r \in 1..Len(links) |-> U32Cell(links[r].id)]),
      Column("Utf8", [r \in 1..Len(links) |-> Utf8Cell(links[r].item.trace_id)]),
      Column("Utf8", [r \in 1..Len(links) |-> Utf8Cell(links[r].item.span_id)]),
      Column("Utf8", [r \in 1..Len(links) |-> OptionCell(links[r].item.trace_state)]),
      Column("UInt32",
             [r \in 1..Len(links) |-> OptionCell(links[r].item.dropped_attributes_count)])>>

\* The outcome of an encoder: "ok" (envelope bytes returned), "error" (an
\* Err returned), "panic" (a failed expect, unwrap or assertion) or
\* "underflow" (a usize subtraction below zero in the pivot); with the
\* tables handed to stats.report before it ended (built = TRUE).
Outcome(status, spans, events, links) ==
    [status |-> status, spans |-> spans, events |-> events, links |-> links]

\* serialize_row_oriented_data_source(batch_stats, spans), with the
\* iteration order of each table's attribute map.  The schemas are inferred
\* first (events, links, spans), then the events, links and spans tables
\* are built; each is reported to the statistics probe (enabled or not)
\* before RecordBatch::try_new.  The outcome holds the tables that were
\* handed to stats.report before the encoder returned or panicked.
serialize_row_oriented_data_source(enabled, spans, span_order, event_order, link_order) ==
    LET event_schema == infer_event_attribute_schema(spans)
        link_schema == infer_link_attribute_schema(spans)
        span_types == infer_span_attribute_schema(spans)
        gen_id_column == (event_schema.count + link_schema.count) > 0
        event_fields == infer_event_schema(event_schema.types, event_order)
        link_fields == infer_link_schema(link_schema.types, link_order)
        span_fields == infer_span_schema(span_types, span_order, gen_id_column)
        events == EventRows(spans, 1)
        links == LinkRows(spans, 1)
        event_columns ==
            RowEventFixedColumns(events)
                \o add_attribute_columns(MapSeq(events, RowItemAttributes),
                                         event_schema.types, event_order)
        link_columns ==
            RowLinkFixedColumns(links)
                \o add_attribute_columns(MapSeq(links, RowItemAttributes),
                                         link_schema.types, link_order)
        span_columns ==
            RowSpanFixedColumns(spans, gen_id_column)
                \o add_attribute_columns(MapSeq(spans, SpanAttributesOf),
                                         span_types, span_order)
        events_table == Table(event_fields, event_columns)
        links_table == Table(link_fields, link_columns)
        spans_table == Table(span_fields, span_columns)
    IN IF FieldsPanic(event_fields) \/ FieldsPanic(link_fields) \/ FieldsPanic(span_fields)
       THEN Outcome("panic", EmptyTable, EmptyTable, EmptyTable)
       ELSE IF ColumnsPanic(event_columns)
       THEN Outcome("panic", EmptyTable, EmptyTable, EmptyTable)
       ELSE IF ReportPanics(enabled, event_fields, event_columns)
       THEN Outcome("panic", EmptyTable, events_table, EmptyTable)
       ELSE IF RecordBatchTryNew(event_fields, event_columns) = "error"
       THEN Outcome("error", EmptyTable, events_table, EmptyTable)
       ELSE IF ColumnsPanic(link_columns)
       THEN Outcome("panic", EmptyTable, events_table, EmptyTable)
       ELSE IF ReportPanics(enabled, link_fields, link_columns)
       THEN Outcome("panic", EmptyTable, events_table, links_table)
       ELSE IF RecordBatchTryNew(link_fields, link_columns) = "error"
       THEN Outcome("error", EmptyTable, events_table, links_table)
       ELSE IF ColumnsPanic(span_columns)
       THEN Outcome("panic", EmptyTable, events_table, links_table)
       ELSE IF ReportPanics(enabled, span_fields, span_columns)
       THEN Outcome("panic", spans_table, events_table, links_table)
       \* RecordBatch::try_new(..).unwrap() for the spans table
       ELSE IF RecordBatchTryNew(span_fields, span_columns) = "error"
       THEN Outcome("panic", spans_table, events_table, links_table)
       ELSE Outcome("ok", spans_table, events_table, links_table)

----------------------------------------------------------------------------
(* The column-oriented encoder: arrow/mod.rs to_data_columns,              *)
(* attributes_to_data_columns, build_attribute_columns,                    *)
(* serialize_column_oriented_data_source; arrow/attribute.rs               *)
(* attribute_fields; serialize_*_from_column_oriented_data_source.         *)

\* DataColumn: the variant, the missing counter and the values
\* (Vec<Option<T>>, None kept as NullCell).  NoColumn: no entry for a key.
NoColumn == [variant |-> "None", missing |-> 0, values |-> <<>>]
DataColumn(variant, missing, values) ==
    [variant |-> variant, missing |-> missing, values |-> values]

build_attribute_columns(inferred_attributes) ==
    [k \in Keys |->
        IF inferred_attributes[k] = NoFieldInfo THEN NoColumn
        ELSE DataColumn(inferred_attributes[k].field_type, 0, <<>>)]

SetMax(S) == CHOOSE x \in S : \A y \in S : y <= x

\* value.as_u64() / as_i64() / as_f64() / as_str() / as_bool() by the
\* column's variant; None makes the expect that follows fail.
ConvertForColumn(variant, value) ==
    CASE variant = "U64" -> as_u64(value)
      [] variant = "I64" -> as_i64(value)
      [] variant = "F64" -> as_f64(value)
      [] variant = "String" -> as_str(value)
      [] variant = "Bool" -> as_bool(value)

\* The None arm of attributes_to_data_columns: every column counts one
\* missing value and takes one None.
PushNone(attributes_column) ==
    [k \in Keys |->
        IF attributes_column[k] = NoColumn THEN NoColumn
        ELSE [attributes_column[k] EXCEPT !.missing = @ + 1,
                                          !.values = Append(@, NullCell)]]

\* The entries of a map with !value.is_null().
PresentKeys(map) == {k \in Keys : map[k] # Absent /\ map[k].kind # "null"}

\* .expect("missing attribute column, ..") fails for some entry.
MissingColumn(map, attributes_column) ==
    \E k \in PresentKeys(map) : attributes_column[k] = NoColumn

\* .expect("should be a .. value based on the inference schema") fails.
BadValue(map, attributes_column) ==
    \E k \in PresentKeys(map) :
        /\ attributes_column[k] # NoColumn
        /\ ConvertForColumn(attributes_column[k].variant, map[k]) = None

\* The first loop of the Some arm: the value of each non-null entry is
\* pushed to the column of its name.
PushValues(map, attributes_column) ==
    [k \in Keys |->
        IF k \in PresentKeys(map) /\ attributes_column[k] # NoColumn
        THEN [attributes_column[k] EXCEPT
                !.values = Append(@, ConvertForColumn(attributes_column[k].variant, map[k]))]
        ELSE attributes_column[k]]

\* max_row_count after the first loop: the longest column pushed to.
MaxRowCount(map, pushed) ==
    SetMax({0} \cup {Len(pushed[k].values) : k \in PresentKeys(map)})

\* max_row_count - values.len() is negative for some column (a usize).
PadUnderflow(pushed, max_row_count) ==
    \E k \in Keys : pushed[k] # NoColumn /\ max_row_count < Len(pushed[k].values)

\* The second loop of the Some arm: max_row_count - values.len() None's
\* are pushed to every column; missing is left as it is.
PadColumns(pushed, max_row_count) ==
    [k \in Keys |->
        IF pushed[k] = NoColumn THEN NoColumn
        ELSE [pushed[k] EXCEPT
                !.values = @ \o [i \in 1..(max_row_count - Len(@)) |-> NullCell]]]

PivotResult(status, columns) == [status |-> status, columns |-> columns]

PadRow(attributes_column, pushed, max_row_count) ==
    IF PadUnderflow(pushed, max_row_count)
    THEN PivotResult("underflow", attributes_column)
    ELSE PivotResult("ok", PadColumns(pushed, max_row_count))

\* attributes_to_data_columns(attributes, attributes_column): the status
\* and the columns after one row.
attributes_to_data_columns(attributes, attributes_column) ==
    IF ~attributes.is_some
    THEN PivotResult("ok", PushNone(attributes_column))
    ELSE IF MissingColumn(attributes.map, attributes_column)
            \/ BadValue(attributes.map, attributes_column)
    THEN PivotResult("panic", attributes_column)
    ELSE PadRow(attributes_column,
                PushValues(attributes.map, attributes_column),
                MaxRowCount(attributes.map, PushValues(attributes.map, attributes_column)))

\* attributes_to_data_columns over the events (or the links) of one span.
RECURSIVE PivotChildren(_, _)
PivotChildren(children, acc) ==
    IF children = <<>> \/ acc.status # "ok" THEN acc
    ELSE PivotChildren(Tail(children),
                       attributes_to_data_columns(ChildAttributesOf(Head(children)),
                                                  acc.columns))

ItemsOf(option) == IF option.is_some THEN option.items ELSE <<>>

\* The body of the loop of to_data_columns for one span: its attributes,
\* then its events, then its links.
PivotLinks(acc, l) ==
    IF l.status # "ok" THEN [acc EXCEPT !.status = l.status]
    ELSE [acc EXCEPT !.links = l.columns]

PivotEvents(span, acc, e) ==
    IF e.status # "ok" THEN [acc EXCEPT !.status = e.status]
    ELSE PivotLinks([acc EXCEPT !.events = e.columns],
                    PivotChildren(ItemsOf(span.links), PivotResult("ok", acc.links)))

PivotSpan(span, acc, s) ==
    IF s.status # "ok" THEN [acc EXCEPT !.status = s.status]
    ELSE PivotEvents(span, [acc EXCEPT !.spans = s.columns],
                     PivotChildren(ItemsOf(span.events), PivotResult("ok", acc.events)))

RECURSIVE PivotSpans(_, _, _)
PivotSpans(spans, i, acc) ==
    IF i > Len(spans) \/ acc.status # "ok" THEN acc
    ELSE PivotSpans(spans, i + 1,
                    PivotSpan(spans[i], acc,
                              attributes_to_data_columns(spans[i].attributes, acc.spans)))

\* to_data_columns(spans): the status of the pivot and the attribute
\* columns of the three tables.
to_data_columns(spans) ==
    PivotSpans(spans, 1,
        [status |-> "ok",
         spans |-> build_attribute_columns(infer_span_attribute_schema(spans)),
         events |-> build_attribute_columns(infer_event_attribute_schema(spans).types),
         links |-> build_attribute_columns(infer_link_attribute_schema(spans).types)])

\* The counters attribute_fields takes from the values of a StringColumn.
NonNullValues(values) == {i \in 1..Len(values) : values[i] # NullCell}
DistinctStrings(values) == {values[i].str : i \in NonNullValues(values)}

DataColumnType(data_column) ==
    CASE data_column.variant = "U64" -> "UInt64"
      [] data_column.variant = "I64" -> "Int64"
      [] data_column.variant = "F64" -> "Float64"
      [] data_column.variant = "Bool" -> "Boolean"
      [] data_column.variant = "String" ->
            StringColumnType(Cardinality(DistinctStrings(data_column.values)),
                             Cardinality(NonNullValues(data_column.values)))

\* attribute_fields(prefix, attributes_column, fields, columns): one field
\* and one column per entry, in the map's order; nullable is missing > 0.
attribute_fields_fields(prefix, attributes_column, order) ==
    [i \in 1..Len(order) |->
        Field(prefix \o order[i], DataColumnType(attributes_column[order[i]]),
              attributes_column[order[i]].missing > 0)]

attribute_fields_columns(attributes_column, order) ==
    [i \in 1..Len(order) |->
        Column(DataColumnType(attributes_column[order[i]]),
               attributes_column[order[i]].values)]

\* add_attribute_data_columns(fields, columns, attributes_column), called
\* by the three column-oriented serializers: attribute_fields with the
\* prefix of add_attribute_fields.
add_attribute_data_columns_fields(attributes_column, order) ==
    attribute_fields_fields("attributes_", attributes_column, order)
add_attribute_data_columns_columns(attributes_column, order) ==
    attribute_fields_columns(attributes_column, order)

\* The fixed columns of serialize_spans_from_column_oriented_data_source:
\* the eleven fixed fields, no id.
ColumnSpanKindCell(span) ==
    IF span.kind = None THEN NullCell ELSE AsU32(AsU8(span.kind.num))

ColumnSpanFixedColumns(spans) ==
    <<Column("UInt64", [i \in 1..Len(spans) |-> U64Cell(spans[i].start_time_unix_nano)]),
      Column("UInt64", [i \in 1..Len(spans) |-> OptionCell(spans[i].end_time_unix_nano)]),
      Column("Binary", [i \in 1..Len(spans) |-> BinaryCell(spans[i].trace_id)]),
      Column("Binary", [i \in 1..Len(spans) |-> BinaryCell(spans[i].span_id)]),
      Column("Utf8", [i \in 1..Len(spans) |-> OptionCell(spans[i].trace_state)]),
      Column("Binary", [i \in 1..Len(spans) |-> OptionCell(spans[i].parent_span_id)]),
      Column("Utf8", [i \in 1..Len(spans) |-> Utf8Cell(spans[i].name)]),
      Column("UInt32", [i \in 1..Len(spans) |-> ColumnSpanKindCell(spans[i])]),
      Column("UInt32", [i \in 1..Len(spans) |-> OptionCell(spans[i].dropped_attributes_count)]),
      Column("UInt32", [i \in 1..Len(spans) |-> OptionCell(spans[i].dropped_events_count)]),
      Column("UInt32", [i \in 1..Len(spans) |-> OptionCell(spans[i].dropped_links_count)])>>

\* serialize_*_from_column_oriented_data_source: the fields and columns
\* handed to RecordBatch::try_new.
ColumnEventsTable(spans, event_attributes, order) ==
    Table(EventFixedFields \o add_attribute_data_columns_fields(event_attributes, order),
          RowEventFixedColumns(EventRows(spans, 1))
              \o add_attribute_data_columns_columns(event_attributes, order))

ColumnLinksTable(spans, link_attributes, order) ==
    Table(LinkFixedFields \o add_attribute_data_columns_fields(link_attributes, order),
          RowLinkFixedColumns(LinkRows(spans, 1))
              \o add_attribute_data_columns_columns(link_attributes, order))

ColumnSpansTable(spans, span_attributes, order) ==
    Table(SpanFixedFields \o add_attribute_data_columns_fields(span_attributes, order),
          ColumnSpanFixedColumns(spans)
              \o add_attribute_data_columns_columns(span_attributes, order))

TryNew(table) == RecordBatchTryNew(table.fields, table.columns)
Report(enabled, table) == ReportPanics(enabled, table.fields, table.columns)

\* The events, links and spans tables in turn, each ending with
\* stats.report(..) and RecordBatch::try_new(..)?  The outcome holds the
\* tables that were handed to stats.report.
SerializeDataColumns(enabled, status, events_table, links_table, spans_table) ==
    IF status # "ok"
    THEN Outcome(status, EmptyTable, EmptyTable, EmptyTable)
    ELSE IF FieldsPanic(events_table.fields)
    THEN Outcome("panic", EmptyTable, EmptyTable, EmptyTable)
    ELSE IF Report(enabled, events_table)
    THEN Outcome("panic", EmptyTable, events_table, EmptyTable)
    ELSE IF TryNew(events_table) = "error"
    THEN Outcome("error", EmptyTable, events_table, EmptyTable)
    ELSE IF FieldsPanic(links_table.fields)
    THEN Outcome("panic", EmptyTable, events_table, EmptyTable)
    ELSE IF Report(enabled, links_table)
    THEN Outcome("panic", EmptyTable, events_table, links_table)
    ELSE IF TryNew(links_table) = "error"
    THEN Outcome("error", EmptyTable, events_table, links_table)
    ELSE IF FieldsPanic(spans_table.fields)
    THEN Outcome("panic", EmptyTable, events_table, links_table)
    ELSE IF Report(enabled, spans_table)
    THEN Outcome("panic", spans_table, events_table, links_table)
    ELSE IF TryNew(spans_table) = "error"
    THEN Outcome("error", spans_table, events_table, links_table)
    ELSE Outcome("ok", spans_table, events_table, links_table)

SerializePivot(enabled, spans, data_columns, span_order, event_order, link_order) ==
    SerializeDataColumns(enabled, data_columns.status,
                         ColumnEventsTable(spans, data_columns.events, event_order),
                         ColumnLinksTable(spans, data_columns.links, link_order),
                         ColumnSpansTable(spans, data_columns.spans, span_order))

\* serialize_column_oriented_data_source(spans), with the iteration order
\* of each table's attribute map.
serialize_column_oriented_data_source(enabled, spans, span_order, event_order, link_order) ==
    SerializePivot(enabled, spans, to_data_columns(spans), span_order, event_order, link_order)

----------------------------------------------------------------------------
(* The envelope: the Arrow IPC streams written by StreamWriter and the     *)
(* ResourceEvents message that carries them (arrow/mod.rs).                *)

\* One message of an IPC stream.
SchemaMessage(fields) == [message |-> "schema", fields |-> fields, columns |-> <<>>]
BatchMessage(columns) == [message |-> "batch", fields |-> <<>>, columns |-> columns]
EndOfStream == [message |-> "eos", fields |-> <<>>, columns |-> <<>>]

\* StreamWriter::try_new(Vec::new(), schema) writes the schema,
\* writer.write(&batch) the record batch, writer.finish() the end marker;
\* into_inner() returns the buffer.
StreamWriterBytes(table) ==
    <<SchemaMessage(table.fields), BatchMessage(table.columns), EndOfStream>>

\* ResourceEvents { instrumentation_library_events: vec![
\* InstrumentationLibraryEvents { spans: spans_buf, events: events_buf,
\* links: links_buf } ] }, encoded with prost.
ResourceEvents(spans_buf, events_buf, links_buf) ==
    [spans |-> spans_buf, events |-> events_buf, links |-> links_buf]

\* The envelope an encoder returns with Ok(buf).
EnvelopeOf(outcome) ==
    ResourceEvents(StreamWriterBytes(outcome.spans),
                   StreamWriterBytes(outcome.events),
                   StreamWriterBytes(outcome.links))

----------------------------------------------------------------------------
(* Spec: main.rs reads a chunk of spans, then hands it to the row-oriented *)
(* encoder and, when that succeeded, to the column-oriented encoder.       *)

Init ==
    /\ batch = <<>>
    /\ pc = "read"
    /\ row_out = NotRun
    /\ col_out = NotRun
    /\ InferIdle /\ DictIdle /\ FieldIdle /\ DecodeIdle /\ BenchIdle

\* The rows of the input carry distinct timestamps and link targets: the
\* n-th row read has start_time_unix_nano (a span) or time_unix_nano (an
\* event) n, or the span_id "LS" followed by n marks (a link).
RECURSIVE LinkSpanId(_)
LinkSpanId(n) == IF n = 0 THEN "LS" ELSE LinkSpanId(n - 1) \o "'"

\* The reader yields one more span.
ReadSpan ==
    /\ pc = "read"
    /\ TotalRows(batch) < MaxRows
    /\ \E span \in SpanChoices :
          batch' = Append(batch, [span EXCEPT !.start_time_unix_nano = TotalRows(batch) + 1])
    /\ UNCHANGED <<pc, row_out, col_out, inferVars, dictVars, fieldVars, decodeVars, benchVars>>

\* The span being read holds one more event.
ReadEvent ==
    /\ pc = "read"
    /\ batch # <<>>
    /\ TotalRows(batch) < MaxRows
    /\ \E attributes \in ChildAttributeChoices :
          batch' = [batch EXCEPT ![Len(batch)].events =
                        [is_some |-> TRUE,
                         items |-> Append(@.items,
                                          [NewEvent(attributes) EXCEPT
                                              !.time_unix_nano = TotalRows(batch) + 1])]]
    /\ UNCHANGED <<pc, row_out, col_out, inferVars, dictVars, fieldVars, decodeVars, benchVars>>

\* The span being read holds one more link.
ReadLink ==
    /\ pc = "read"
    /\ batch # <<>>
    /\ TotalRows(batch) < MaxRows
    /\ \E attributes \in ChildAttributeChoices :
          batch' = [batch EXCEPT ![Len(batch)].links =
                        [is_some |-> TRUE,
                         items |-> Append(@.items,
                                          [NewLink(attributes) EXCEPT
                                              !.span_id = LinkSpanId(TotalRows(batch) + 1)])]]
    /\ UNCHANGED <<pc, row_out, col_out, inferVars, dictVars, fieldVars, decodeVars, benchVars>>

\* The chunk is complete (chunks() yields no empty chunk).
EndBatch ==
    /\ pc = "read"
    /\ batch # <<>>
    /\ pc' = "row"
    /\ UNCHANGED <<batch, row_out, col_out, inferVars, dictVars, fieldVars, decodeVars, benchVars>>

SerializeRowOriented ==
    /\ pc = "row"
    /\ \E span_order \in KeyOrders(InferredKeys(infer_span_attribute_schema(batch))),
          event_order \in KeyOrders(InferredKeys(infer_event_attribute_schema(batch).types)),
          link_order \in KeyOrders(InferredKeys(infer_link_attribute_schema(batch).types)) :
          row_out' = serialize_row_oriented_data_source(stats_enabled, batch, span_order,
                                                        event_order, link_order)
    /\ pc' = "col"
    /\ UNCHANGED <<batch, col_out, inferVars, dictVars, fieldVars, decodeVars, benchVars>>

\* main.rs panics on a failed row-oriented encoding; the column-oriented
\* encoder is not entered.
AbortAfterRowOriented ==
    /\ pc = "col"
    /\ row_out.status # "ok"
    /\ pc' = "aborted"
    /\ UNCHANGED <<batch, row_out, col_out, inferVars, dictVars, fieldVars, decodeVars, benchVars>>

SerializeColumnOriented ==
    /\ pc = "col"
    /\ row_out.status = "ok"
    /\ \E span_order \in KeyOrders(InferredKeys(infer_span_attribute_schema(batch))),
          event_order \in KeyOrders(InferredKeys(infer_event_attribute_schema(batch).types)),
          link_order \in KeyOrders(InferredKeys(infer_link_attribute_schema(batch).types)) :
          col_out' = serialize_column_oriented_data_source(stats_enabled, batch, span_order,
                                                           event_order, link_order)
    /\ pc' = "done"
    /\ UNCHANGED <<batch, row_out, inferVars, dictVars, fieldVars, decodeVars, benchVars>>

Next ==
    \/ ReadSpan
    \/ ReadEvent
    \/ ReadLink
    \/ EndBatch
    \/ SerializeRowOriented
    \/ AbortAfterRowOriented
    \/ SerializeColumnOriented

Spec == Init /\ [][Next]_vars

----------------------------------------------------------------------------
(* The field-emission helpers of arrow/mod.rs, and SpecField: a            *)
(* helper applied to a slice of Option values, fields and columns empty.   *)

\* Length of the slices drawn value by value.
MaxData == 6
\* Number of distinct strings of the generated slices.
LargeDistinct == 256

\* Some(v) of a slice: v is the number num, or the string that writes num
\* in base sixteen.
HexDigits == <<"0", "1", "2", "3", "4", "5", "6", "7", "8", "9", "a", "b", "c", "d", "e", "f">>
RECURSIVE StringOf(_)
StringOf(n) ==
    IF n < 16 THEN HexDigits[n + 1] ELSE StringOf(n \div 16) \o HexDigits[(n % 16) + 1]
SomeValue(n) == [kind |-> "some", num |-> n, str |-> StringOf(n)]

\* What a helper has pushed to fields and columns.
Pushed(fields, columns) == [fields |-> fields, columns |-> columns]

NullCount(values) == Cardinality({i \in 1..Len(values) : values[i] = NullCell})

\* The field and the column pushed whatever the array holds.
PushUnlessAllNull_Always(field_name, data_type, values) ==
    Pushed(<<Field(field_name, data_type, NullCount(values) > 0)>>,
           <<Column(data_type, values)>>)

\* if array.null_count() < array.len() { fields.push(Field::new(field_name,
\* data_type, array.null_count() > 0)); columns.push(Arc::new(array)); }
PushUnlessAllNull(field_name, data_type, values) ==
    IF NullCount(values) < Len(values)
    THEN Pushed(<<Field(field_name, data_type, NullCount(values) > 0)>>,
                <<Column(data_type, values)>>)
    ELSE Pushed(<<>>, <<>>)

\* The array a primitive builder finishes: append_null for None,
\* append_value for Some.
BuiltArray(data, kind) ==
    [i \in 1..Len(data) |->
        IF data[i] = None THEN NullCell ELSE [kind |-> kind, num |-> data[i].num, str |-> ""]]

\* append_value(value.as_bytes()) / append_value(value.clone())
BuiltStrings(data, kind) ==
    [i \in 1..Len(data) |->
        IF data[i] = None THEN NullCell ELSE [kind |-> kind, num |-> 0, str |-> data[i].str]]

u64_nullable_field(field_name, data) ==
    PushUnlessAllNull(field_name, "UInt64", BuiltArray(data, "u64"))
i64_nullable_field(field_name, data) ==
    PushUnlessAllNull(field_name, "Int64", BuiltArray(data, "i64"))
f64_nullable_field(field_name, data) ==
    PushUnlessAllNull(field_name, "Float64", BuiltArray(data, "f64"))
bool_nullable_field(field_name, data) ==
    PushUnlessAllNull(field_name, "Boolean", BuiltArray(data, "bool"))
u8_nullable_field(field_name, data) ==
    PushUnlessAllNull(field_name, "UInt8", BuiltArray(data, "u8"))
u32_nullable_field(field_name, data) ==
    PushUnlessAllNull(field_name, "UInt32", BuiltArray(data, "u32"))
binary_nullable_field(field_name, data) ==
    PushUnlessAllNull(field_name, "Binary", BuiltStrings(data, "binary"))

\* string_nullable_field: nothing without a distinct string, else the
\* dictionary builder of the chosen key width or the plain string builder.
StringNullableFieldPush(field_name, values, data_type) ==
    IF data_type = "omitted" THEN Pushed(<<>>, <<>>)
    ELSE PushUnlessAllNull(field_name, data_type, values)

string_nullable_field(field_name, data) ==
    StringNullableFieldPush(
        field_name, BuiltStrings(data, "utf8"),
        StringNullableFieldType(Cardinality(DistinctStrings(BuiltStrings(data, "utf8"))),
                                Cardinality(NonNullValues(BuiltStrings(data, "utf8")))))

\* if data.is_empty() { return; } fields.push(Field::new(field_name,
\* data_type, false)); columns.push(..from_iter_values(data))
PushUnlessEmpty(field_name, data_type, values) ==
    IF values = <<>> THEN Pushed(<<>>, <<>>)
    ELSE Pushed(<<Field(field_name, data_type, FALSE)>>, <<Column(data_type, values)>>)

u64_non_nullable_field(field_name, data) ==
    PushUnlessEmpty(field_name, "UInt64", BuiltArray(data, "u64"))
u32_non_nullable_field(field_name, data) ==
    PushUnlessEmpty(field_name, "UInt32", BuiltArray(data, "u32"))
binary_non_nullable_field(field_name, data) ==
    PushUnlessEmpty(field_name, "Binary", BuiltStrings(data, "binary"))

\* string_non_nullable_field, the decision: nothing for cardinality 0
\* (an empty slice); a dictionary of 8-bit or 16-bit keys when
\* min_num_bits <= 16 and cardinality / row_count < 0.2; else plain UTF-8.
StringNonNullableFieldType(cardinality, row_count) ==
    IF cardinality = 0 THEN "omitted"
    ELSE IF min_num_bits_to_represent(cardinality) <= 16 /\ 5 * cardinality < row_count
    THEN IF min_num_bits_to_represent(cardinality) <= 8 THEN Dict8 ELSE Dict16
    ELSE "Utf8"

\* The dictionary arms push under array.null_count() < array.len() with
\* nullable = array.null_count() > 0, the plain arm pushes a non-nullable
\* field; the array holds no null.
string_non_nullable_field(field_name, data) ==
    StringNullableFieldPush(
        field_name, BuiltStrings(data, "utf8"),
        StringNonNullableFieldType(Cardinality(DistinctStrings(BuiltStrings(data, "utf8"))),
                                   Len(data)))

NullableHelpers ==
    {"u64_nullable_field", "i64_nullable_field", "f64_nullable_field",
     "bool_nullable_field", "u8_nullable_field", "u32_nullable_field",
     "binary_nullable_field", "string_nullable_field"}

NonNullableHelpers ==
    {"u64_non_nullable_field", "u32_non_nullable_field", "binary_non_nullable_field",
     "string_non_nullable_field"}

CallHelper(helper, field_name, data) ==
    CASE helper = "u64_nullable_field" -> u64_nullable_field(field_name, data)
      [] helper = "i64_nullable_field" -> i64_nullable_field(field_name, data)
      [] helper = "f64_nullable_field" -> f64_nullable_field(field_name, data)
      [] helper = "bool_nullable_field" -> bool_nullable_field(field_name, data)
      [] helper = "u8_nullable_field" -> u8_nullable_field(field_name, data)
      [] helper = "u32_nullable_field" -> u32_nullable_field(field_name, data)
      [] helper = "binary_nullable_field" -> binary_nullable_field(field_name, data)
      [] helper = "string_nullable_field" -> string_nullable_field(field_name, data)
      [] helper = "u64_non_nullable_field" -> u64_non_nullable_field(field_name, data)
      [] helper = "u32_non_nullable_field" -> u32_non_nullable_field(field_name, data)
      [] helper = "binary_non_nullable_field" -> binary_non_nullable_field(field_name, data)
      [] helper = "string_non_nullable_field" -> string_non_nullable_field(field_name, data)

\* The slices: every sequence of up to MaxData values among None and two
\* distinct Some, and generated slices that repeat LargeDistinct distinct
\* values six times, alone or followed by a None.
SmallSlices == UNION {[1..n -> {None, SomeValue(1), SomeValue(2)}] : n \in 0..MaxData}
RepeatedSlice == [i \in 1..(6 * LargeDistinct) |-> SomeValue(i % LargeDistinct)]
LargeSlices == {RepeatedSlice, Append(RepeatedSlice, None)}

InitField ==
    /\ field_source \in SmallSlices \cup LargeSlices
    /\ field_out = NotRun
    /\ InferIdle /\ DictIdle /\ EncIdle /\ DecodeIdle /\ BenchIdle

\* One nullable helper is called with empty fields and columns.
EmitNullableField ==
    /\ field_out = NotRun
    /\ \E helper \in NullableHelpers :
          field_out' = [status |-> helper, pushed |-> CallHelper(helper, "f", field_source)]
    /\ UNCHANGED <<field_source, inferVars, dictVars, encVars, decodeVars, benchVars>>

\* One non-nullable helper is called with empty fields and columns; its
\* slice (&[u64], &[u32], &[String]) holds no None.
EmitNonNullableField ==
    /\ field_out = NotRun
    /\ {i \in 1..Len(field_source) : field_source[i] = None} = {}
    /\ \E helper \in NonNullableHelpers :
          field_out' = [status |-> helper, pushed |-> CallHelper(helper, "f", field_source)]
    /\ UNCHANGED <<field_source, inferVars, dictVars, encVars, decodeVars, benchVars>>

NextField == EmitNullableField \/ EmitNonNullableField

SpecField == InitField /\ [][NextField]_vars

(* Claims settled under SpecField. *)

SourceNulls == {i \in 1..Len(field_source) : field_source[i] = None}

\* C19: every nullable field helper pushes neither a field nor a column
\* exactly when all the source values are null (an empty source included);
\* otherwise it pushes exactly one field and one column, of one cell per
\* source value, with nullable = (null_count > 0).
C19_NullableFieldOmittedIffAllNull ==
    (field_out # NotRun /\ field_out.status \in NullableHelpers) =>
        IF Cardinality(SourceNulls) = Len(field_source)
        THEN field_out.pushed = Pushed(<<>>, <<>>)
        ELSE /\ Len(field_out.pushed.fields) = 1
             /\ Len(field_out.pushed.columns) = 1
             /\ Len(field_out.pushed.columns[1].values) = Len(field_source)
             /\ field_out.pushed.fields[1].nullable = (SourceNulls # {})
             /\ field_out.pushed.columns[1].data_type = field_out.pushed.fields[1].data_type

\* C19 witness: string_nullable_field has pushed a dictionary field with
\* 16-bit keys, declared nullable, for a slice that holds a null.
C19_Witness ==
    /\ field_out # NotRun
    /\ field_out.status = "string_nullable_field"
    /\ SourceNulls # {}
    /\ Len(field_out.pushed.fields) = 1
    /\ field_out.pushed.fields[1].data_type = Dict16
    /\ field_out.pushed.fields[1].nullable

----------------------------------------------------------------------------
(* SpecExample: the two encoders applied to a batch of two spans; the      *)
(* first holds events, the second may hold an event; both may hold links.  *)

\* Number of events of the first span.
MaxExampleEvents == 2
\* Number of links of a span.
MaxExampleLinks == 2

\* events: Some(vec) with one event per attribute map, stamped n + 1, ..
StampedEvents(attribute_maps, n) ==
    [is_some |-> TRUE,
     items |-> [i \in 1..Len(attribute_maps) |->
                    [NewEvent(attribute_maps[i]) EXCEPT !.time_unix_nano = n + i]]]

\* links: Some(vec) with one link per attribute map, named after n + 1, ..
StampedLinks(attribute_maps, n) ==
    [is_some |-> TRUE,
     items |-> [i \in 1..Len(attribute_maps) |->
                    [NewLink(attribute_maps[i]) EXCEPT !.span_id = LinkSpanId(n + i)]]]

\* events: None / links: None for no attribute map.
OptionalChildren(children) ==
    IF children.items = <<>> THEN [is_some |-> FALSE, items |-> <<>>] ELSE children

ExampleEventAttributes ==
    UNION {[1..n -> ChildAttributeChoices] : n \in 1..MaxExampleEvents}
ExampleSiblingAttributes ==
    UNION {[1..n -> ChildAttributeChoices] : n \in 0..1}
\* The attribute maps of the links of a span: empty or a string under "k".
ExampleLinkAttributes ==
    UNION {[1..n -> {OneAttribute("k", x) : x \in {Absent, JString("v")}}] :
              n \in 0..MaxExampleLinks}
\* The attribute maps of the events of a span that holds links as well.
ExampleLinkedEventAttributes ==
    {[i \in 1..n |-> OneAttribute("k", SmallU64)] : n \in 1..MaxExampleEvents}

ExampleSpan(attributes, start, event_maps, link_maps) ==
    [NewSpan(attributes, FALSE) EXCEPT
        !.start_time_unix_nano = start,
        !.events = OptionalChildren(StampedEvents(event_maps, start)),
        !.links = OptionalChildren(StampedLinks(link_maps, start + Len(event_maps)))]

\* Six spans that hold the same string under "k" (and one event): one
\* distinct string over six values, a ratio below 0.2.
RepeatedStringBatch ==
    [i \in 1..6 |->
        ExampleSpan(SomeAttributes(OneAttribute("k", JString("v"))), i + 1,
                    IF i = 6 THEN <<OneAttribute("k", SmallU64)>> ELSE <<>>, <<>>)]

\* Two spans without attributes that both hold up to MaxExampleLinks
\* links, the first after its events, the second after its event.
LinkedBatches ==
    {<<ExampleSpan(NoAttributes, 1, e, k), ExampleSpan(NoAttributes, Len(e) + Len(k) + 2, f, l)>> :
        e \in ExampleLinkedEventAttributes, k \in ExampleLinkAttributes,
        f \in ExampleSiblingAttributes, l \in ExampleLinkAttributes}

ExampleBatches ==
    {<<ExampleSpan(a, 1, e, <<>>), ExampleSpan(b, Len(e) + 2, f, l)>> :
        a \in SpanAttributeChoices, b \in SpanAttributeChoices,
        e \in ExampleEventAttributes,
        f \in ExampleSiblingAttributes, l \in ExampleSiblingAttributes}
        \cup {RepeatedStringBatch}

InitExample ==
    /\ (batch \in ExampleBatches \/ batch \in LinkedBatches)
    /\ pc = "row"
    /\ row_out = NotRun
    /\ col_out = NotRun
    /\ InferIdle /\ DictIdle /\ FieldIdle /\ DecodeIdle /\ BenchIdle

NextExample ==
    \/ SerializeRowOriented
    \/ AbortAfterRowOriented
    \/ SerializeColumnOriented

SpecExample == InitExample /\ [][NextExample]_vars

----------------------------------------------------------------------------
(* Properties of the tables the two encoders build for a batch.            *)

\* The outcomes of the encoders that have run on the batch.
EncoderOutputs == {o \in {row_out, col_out} : o.status # "NotRun"}

ColumnsOfLength(table, n) ==
    \A i \in 1..Len(table.columns) : Len(table.columns[i].values) = n

\* C1: in both encoders, every column (fixed or attribute) of every table
\* an encoder emits for a batch (the encoder returned Ok) has as many
\* cells as the table has rows: the number of spans, the total number of
\* events, the total number of links.
C1_ColumnLengthsEqualRowCount ==
    \A o \in EncoderOutputs :
        o.status = "ok" =>
            /\ ColumnsOfLength(o.spans, Len(batch))
            /\ ColumnsOfLength(o.events, TotalEvents(batch))
            /\ ColumnsOfLength(o.links, TotalLinks(batch))

HoldsNull(table) ==
    \E i \in 1..Len(table.fields) :
        /\ table.fields[i].name = "attributes_k"
        /\ \E r \in 1..Len(table.columns[i].values) : table.columns[i].values[r] = NullCell

\* Both encoders have emitted the tables of a batch of two spans and an
\* event, and the spans tables hold an attribute column with a null cell.
C1_Witness ==
    /\ pc = "done"
    /\ row_out.status = "ok"
    /\ col_out.status = "ok"
    /\ Len(batch) = 2
    /\ TotalEvents(batch) = 1
    /\ HoldsNull(row_out.spans)
    /\ HoldsNull(col_out.spans)

\* The ids the rows of the events (links) table must carry: for the span
\* at 0-based index i, i once per event (link) of that span.
\* counts[i] is the number of events (links) of the i-th span.
RECURSIVE ExpectedIds(_, _)
ExpectedIds(counts, i) ==
    IF i > Len(counts) THEN <<>>
    ELSE [n \in 1..counts[i] |-> U32Cell(i - 1)] \o ExpectedIds(counts, i + 1)

IdFieldIndexes(table) == {i \in 1..Len(table.fields) : table.fields[i].name = "id"}

IdColumnIs(table, ids) ==
    /\ IdFieldIndexes(table) # {}
    /\ \A i \in IdFieldIndexes(table) : table.columns[i].values = ids

\* C2: in both encoders the id of every event row and of every link row is
\* the 0-based index in the batch of the span the row comes from, also
\* when earlier spans hold no events or links.
C2_ChildIdIsSpanIndex ==
    \A o \in EncoderOutputs :
        /\ o.events.built => IdColumnIs(o.events, ExpectedIds(MapSeq(batch, EventCountOf), 1))
        /\ o.links.built => IdColumnIs(o.links, ExpectedIds(MapSeq(batch, LinkCountOf), 1))

\* Both encoders have encoded a batch whose first span holds no event and
\* no link and whose second span holds one.
C2_Witness ==
    /\ pc = "done"
    /\ row_out.status = "ok"
    /\ col_out.status = "ok"
    /\ Len(batch) = 2
    /\ EventCountOf(batch[1]) + LinkCountOf(batch[1]) = 0
    /\ EventCountOf(batch[2]) + LinkCountOf(batch[2]) > 0

\* C3: in both encoders the spans table holds the non-nullable id column,
\* with the row indices 0..n-1, exactly when the batch holds at least one
\* event or link.
C3_SpansIdIffEventsOrLinks ==
    \A o \in EncoderOutputs :
        (o.status = "ok") =>
            /\ (IdFieldIndexes(o.spans) # {}) <=> (TotalEvents(batch) + TotalLinks(batch) > 0)
            /\ \A i \in IdFieldIndexes(o.spans) :
                  /\ ~o.spans.fields[i].nullable
                  /\ o.spans.columns[i].values = [r \in 1..Len(batch) |-> U32Cell(r - 1)]

\* The keys that hold, in some row, a value that is not null; and those
\* that hold a bool, a number or a string.
NonNullKeys(rows) ==
    {k \in Keys : \E r \in 1..Len(rows) :
        rows[r].is_some /\ rows[r].map[k] # Absent /\ rows[r].map[k].kind # "null"}
ScalarKeys(rows) ==
    {k \in Keys : \E r \in 1..Len(rows) :
        /\ rows[r].is_some
        /\ rows[r].map[k].kind \in {"bool", "posint", "negint", "float", "string"}}

AttributeFieldIndexes(table, k) ==
    {i \in 1..Len(table.fields) : table.fields[i].name = "attributes_" \o k}

\* The schema holds exactly one attribute column per key of keys, none for
\* another key.
OneColumnPerKey(table, keys) ==
    \A k \in Keys :
        Cardinality(AttributeFieldIndexes(table, k)) = IF k \in keys THEN 1 ELSE 0

SpanAttributeRows == MapSeq(batch, SpanAttributesOf)
EventAttributeRows == MapSeq(EventRows(batch, 1), RowItemAttributes)
LinkAttributeRows == MapSeq(LinkRows(batch, 1), RowItemAttributes)

\* C4 as stated: for every table and every key that holds a non-null value
\* in some row of the table, the schema holds exactly one column
\* attributes_<key>, and none for a key that never holds a non-null value.
C4_ColumnPerNonNullKey ==
    \A o \in EncoderOutputs :
        /\ o.spans.built => OneColumnPerKey(o.spans, NonNullKeys(SpanAttributeRows))
        /\ o.events.built => OneColumnPerKey(o.events, NonNullKeys(EventAttributeRows))
        /\ o.links.built => OneColumnPerKey(o.links, NonNullKeys(LinkAttributeRows))

\* C4 amended: for every table an encoder builds and every key that holds
\* a bool, a number or a string in some row of the table, the schema holds
\* exactly one column attributes_<key>; a key whose only values are null,
\* arrays or objects gets no column.
C4_ColumnPerScalarKey ==
    \A o \in EncoderOutputs :
        /\ o.spans.built => OneColumnPerKey(o.spans, ScalarKeys(SpanAttributeRows))
        /\ o.events.built => OneColumnPerKey(o.events, ScalarKeys(EventAttributeRows))
        /\ o.links.built => OneColumnPerKey(o.links, ScalarKeys(LinkAttributeRows))

\* Both encoders have encoded a batch in which a key holds only a null
\* among the spans and a number or a string among the events.
C4_Witness ==
    /\ pc = "done"
    /\ row_out.status = "ok"
    /\ col_out.status = "ok"
    /\ \E k \in Keys :
          /\ k \in ScalarKeys(EventAttributeRows)
          /\ k \notin ScalarKeys(SpanAttributeRows)
          /\ \E i \in 1..Len(batch) :
                batch[i].attributes.is_some /\ batch[i].attributes.map[k] = JNull

\* The columns of a table as a set: name, physical type and cells.
TableColumns(table) ==
    {[name |-> table.fields[i].name,
      data_type |-> table.fields[i].data_type,
      values |-> table.columns[i].values] : i \in 1..Len(table.fields)}

\* C13: for every batch the two encoders produce equivalent output: the
\* column-oriented encoder succeeds as the row-oriented one did, and each
\* of the three tables has the same column names with the same physical
\* types, the same row count and the same value or null in every cell.
C13_EncodersEquivalent ==
    pc = "done" =>
        /\ col_out.status = "ok"
        /\ TableColumns(col_out.spans) = TableColumns(row_out.spans)
        /\ TableColumns(col_out.events) = TableColumns(row_out.events)
        /\ TableColumns(col_out.links) = TableColumns(row_out.links)

\* The value a row holds under a key is not of the column's type: the
\* accessor of that type yields nothing for it.
Disagrees(value, field_type) ==
    /\ value # Absent
    /\ CASE field_type = "U64" -> as_u64(value) = None
         [] field_type = "I64" -> as_i64(value) = None
         [] field_type = "F64" -> as_f64(value) = None
         [] field_type = "String" -> as_str(value) = None
         [] field_type = "Bool" -> as_bool(value) = None

\* In the build pass over the rows of one table, every value that
\* disagrees with the inferred type of its key is appended as a null.
DisagreeingValuesAppendNull(rows, types) ==
    \A k \in InferredKeys(types) : \A r \in 1..Len(rows) :
        (rows[r].is_some /\ Disagrees(rows[r].map[k], types[k].field_type)) =>
            AttributeCell(rows[r], k, types[k].field_type) = NullCell

\* C15: in the row-oriented build pass a value whose type disagrees with
\* the column type inferred for its key (a string in a U64 column, a number
\* in a Bool column, an unsigned value above the signed range in an I64
\* column) is appended as a null, without a failure.
C15_DisagreeingValueIsNull ==
    row_out.status # "NotRun" =>
        /\ DisagreeingValuesAppendNull(SpanAttributeRows, infer_span_attribute_schema(batch))
        /\ DisagreeingValuesAppendNull(EventAttributeRows,
                                       infer_event_attribute_schema(batch).types)
        /\ DisagreeingValuesAppendNull(LinkAttributeRows,
                                       infer_link_attribute_schema(batch).types)

\* Some row holds an array or an object under some key.
HoldsArrayOrObject(rows) ==
    \E r \in 1..Len(rows), k \in Keys :
        rows[r].is_some /\ rows[r].map[k].kind \in {"array", "object"}

\* Every cell of an attribute column at a row that holds an array or an
\* object under the column's key is null.
ArrayCellsAreNull(table, rows) ==
    \A k \in Keys : \A i \in AttributeFieldIndexes(table, k) :
        \A r \in 1..Len(rows) :
            (rows[r].is_some /\ rows[r].map[k].kind \in {"array", "object"}) =>
                /\ r <= Len(table.columns[i].values)
                /\ table.columns[i].values[r] = NullCell

\* C16: an attribute whose value is an array or an object is silently
\* dropped by both encoders: on a batch that holds one, neither encoder
\* fails with a panic, and the cell of that row is null in the key's column
\* when the key has one.
C16_ArrayAndObjectDropped ==
    HoldsArrayOrObject(SpanAttributeRows \o EventAttributeRows \o LinkAttributeRows) =>
        \A o \in EncoderOutputs :
            /\ o.status \notin {"panic", "underflow"}
            /\ o.spans.built => ArrayCellsAreNull(o.spans, SpanAttributeRows)
            /\ o.events.built => ArrayCellsAreNull(o.events, EventAttributeRows)
            /\ o.links.built => ArrayCellsAreNull(o.links, LinkAttributeRows)

\* C17: whatever the mix of attribute values of a batch, both encoders run
\* to completion and return envelope bytes or an error value: none ends in
\* a panic (failed expect, unwrap or assertion) or in an arithmetic
\* underflow.
C17_EncodersNeverPanic ==
    \A o \in EncoderOutputs : o.status \in {"ok", "error"}

----------------------------------------------------------------------------
(* Claims settled under SpecExample. *)

\* The batch of the scenario: two spans without attributes, the first
\* holds two events that both carry {k: "v"}, no span holds a link.
TwoEventsScenario ==
    /\ Len(batch) = 2
    /\ \A i \in 1..2 : ~batch[i].attributes.is_some /\ LinkCountOf(batch[i]) = 0
    /\ EventCountOf(batch[1]) = 2
    /\ \A j \in 1..2 : batch[1].events.items[j].attributes = OneAttribute("k", JString("v"))
    /\ EventCountOf(batch[2]) = 0

ScenarioOutputs == {o \in {row_out, col_out} : o.status # "NotRun"}

\* The attribute fields of key k in a table all have the data type.
AttributeTypeIs(table, k, data_type) ==
    /\ \E i \in 1..Len(table.fields) : table.fields[i].name = "attributes_" \o k
    /\ \A i \in 1..Len(table.fields) :
          table.fields[i].name = "attributes_" \o k =>
              table.fields[i].data_type = data_type

\* C12 as stated: for the scenario batch, in every encoder, the events
\* table has 2 rows with id = [0, 0], the spans table includes the id
\* column = [0, 1], and events attributes_k is dictionary-encoded with
\* 8-bit keys.
C12_TwoEventsDictionary ==
    TwoEventsScenario =>
        \A o \in ScenarioOutputs :
            /\ o.status = "ok"
            /\ IdColumnIs(o.events, <<U32Cell(0), U32Cell(0)>>)
            /\ IdColumnIs(o.spans, <<U32Cell(0), U32Cell(1)>>)
            /\ AttributeTypeIs(o.events, "k", Dict8)

\* The events (links) of the batch in input order: span after span, and
\* for each span in the order of its array.
RECURSIVE InputEvents(_)
InputEvents(spans) ==
    IF spans = <<>> THEN <<>>
    ELSE Head(spans).events.items \o InputEvents(Tail(spans))

RECURSIVE InputLinks(_)
InputLinks(spans) ==
    IF spans = <<>> THEN <<>>
    ELSE Head(spans).links.items \o InputLinks(Tail(spans))

\* The table holds a column of the name, and every such column holds the
\* cells.
ColumnIs(table, name, cells) ==
    /\ \E i \in 1..Len(table.fields) : table.fields[i].name = name
    /\ \A i \in 1..Len(table.fields) :
          table.fields[i].name = name => table.columns[i].values = cells

\* A cell of an attribute column is null or the value the row holds under
\* the key.
CellFromRow(cell, attributes, k) ==
    \/ cell = NullCell
    \/ /\ attributes.is_some
       /\ attributes.map[k] # Absent
       /\ cell \in {as_u64(attributes.map[k]), as_i64(attributes.map[k]),
                    as_f64(attributes.map[k]), as_str(attributes.map[k]),
                    as_bool(attributes.map[k])}

AttributeCellsFromRows(table, rows) ==
    \A k \in Keys : \A i \in AttributeFieldIndexes(table, k) :
        /\ Len(table.columns[i].values) = Len(rows)
        /\ \A r \in 1..Len(rows) : CellFromRow(table.columns[i].values[r], rows[r], k)

NonDecreasingIds(table) ==
    \A i \in IdFieldIndexes(table) : \A r \in 1..(Len(table.columns[i].values) - 1) :
        table.columns[i].values[r].num <= table.columns[i].values[r + 1].num

\* C14: in the tables an encoder emits, row r of the spans table is input
\* span r; the rows of the events table and of the links table are the
\* events and links of the spans in input order, each span's in the order
\* of its array (read off the distinct timestamps and link targets of the
\* rows, and off the attribute cells); the child id column is
\* non-decreasing.
C14_RowsInInputOrder ==
    \A o \in ScenarioOutputs :
        o.status = "ok" =>
            /\ ColumnIs(o.spans, "start_time_unix_nano",
                        [r \in 1..Len(batch) |-> U64Cell(batch[r].start_time_unix_nano)])
            /\ AttributeCellsFromRows(o.spans, SpanAttributeRows)
            /\ ColumnIs(o.events, "time_unix_nano",
                        [r \in 1..Len(InputEvents(batch)) |->
                            U64Cell(InputEvents(batch)[r].time_unix_nano)])
            /\ AttributeCellsFromRows(o.events, MapSeq(InputEvents(batch), ChildAttributesOf))
            /\ ColumnIs(o.links, "span_id",
                        [r \in 1..Len(InputLinks(batch)) |->
                            Utf8Cell(InputLinks(batch)[r].span_id)])
            /\ AttributeCellsFromRows(o.links, MapSeq(InputLinks(batch), ChildAttributesOf))
            /\ NonDecreasingIds(o.events)
            /\ NonDecreasingIds(o.links)

\* Both encoders have encoded a batch whose two spans both hold events
\* and links, the first span more than one of each.
C14_Witness ==
    /\ pc = "done"
    /\ row_out.status = "ok"
    /\ col_out.status = "ok"
    /\ EventCountOf(batch[1]) >= 2
    /\ EventCountOf(batch[2]) >= 1
    /\ LinkCountOf(batch[1]) >= 2
    /\ LinkCountOf(batch[2]) >= 1
    /\ Len(row_out.links.columns[1].values) = TotalLinks(batch)
    /\ Len(col_out.links.columns[1].values) = TotalLinks(batch)

----------------------------------------------------------------------------
(* Schema and columns in lock-step (SpecExample).                          *)

\* The kind of the cells an array of a physical type holds.
CellKindOf(data_type) ==
    CASE data_type = "UInt64" -> "u64"
      [] data_type = "UInt32" -> "u32"
      [] data_type = "Int64" -> "i64"
      [] data_type = "Float64" -> "f64"
      [] data_type = "Boolean" -> "bool"
      [] data_type = "Binary" -> "binary"
      [] data_type \in {"Utf8"} \cup DictionaryTypes -> "utf8"

\* As many columns as fields and, at every position, an array of the
\* field's physical type whose cells are null or of that type.
LockStep(table) ==
    /\ Len(table.fields) = Len(table.columns)
    /\ \A i \in 1..Len(table.fields) :
          /\ table.columns[i].data_type = table.fields[i].data_type
          /\ \A r \in 1..Len(table.columns[i].values) :
                table.columns[i].values[r].kind
                    \in {"null", CellKindOf(table.fields[i].data_type)}

\* C21: in both encoders, for each table built, the schema and the column
\* vector have the same number of entries and column i has the physical
\* type declared by field i (plain or dictionary, and the key width); the
\* attribute columns follow the key order of the attribute fields: in the
\* tables emitted, the non-null cells under the field attributes_<key> are
\* the values the rows hold under that key.
C21_SchemaAndColumnsInLockStep ==
    \A o \in EncoderOutputs :
        /\ o.spans.built => LockStep(o.spans)
        /\ o.events.built => LockStep(o.events)
        /\ o.links.built => LockStep(o.links)
        /\ o.status = "ok" =>
              /\ AttributeCellsFromRows(o.spans, SpanAttributeRows)
              /\ AttributeCellsFromRows(o.events, EventAttributeRows)
              /\ AttributeCellsFromRows(o.links, LinkAttributeRows)

\* Both encoders have emitted a spans table whose attributes_k field is a
\* dictionary with 8-bit keys.
C21_Witness ==
    /\ pc = "done"
    /\ row_out.status = "ok"
    /\ col_out.status = "ok"
    /\ AttributeTypeIs(row_out.spans, "k", Dict8)
    /\ AttributeTypeIs(col_out.spans, "k", Dict8)

----------------------------------------------------------------------------
(* Nullability of the attribute fields (Spec).                             *)

\* Two spans: the first holds {k: n} for a number n, the second an empty
\* attribute map.
MissingKeyScenario ==
    /\ Len(batch) = 2
    /\ batch[1].attributes = SomeAttributes(OneAttribute("k", SmallU64))
    /\ batch[2].attributes = SomeAttributes(EmptyAttributes)

\* No attribute field declared non-nullable holds a null.
NoNullInNonNullable(table) ==
    \A k \in Keys : \A i \in AttributeFieldIndexes(table, k) :
        ~table.fields[i].nullable =>
            \A r \in 1..Len(table.columns[i].values) :
                table.columns[i].values[r] # NullCell

\* C18: for span 0 with {k: n} and span 1 with an empty attribute map, both
\* encoders emit the spans column attributes_k = [n, null] with a field
\* declared nullable; and in every table an encoder builds, no attribute
\* field declared non-nullable contains a null.
C18_MissingKeyIsNullable ==
    /\ (MissingKeyScenario /\ pc \in {"done", "aborted"}) =>
          \A o \in {row_out, col_out} :
              /\ o.status = "ok"
              /\ ColumnIs(o.spans, "attributes_k", <<as_u64(SmallU64), NullCell>>)
              /\ \A i \in AttributeFieldIndexes(o.spans, "k") : o.spans.fields[i].nullable
    /\ \A o \in EncoderOutputs :
          /\ o.spans.built => NoNullInNonNullable(o.spans)
          /\ o.events.built => NoNullInNonNullable(o.events)
          /\ o.links.built => NoNullInNonNullable(o.links)

----------------------------------------------------------------------------
(* Tables of a batch that holds no event or no link (Spec). *)

\* C20: a field whose source vector is empty is absent from the emitted
\* schema: a batch without events yields an events table with no fields and
\* a batch without links a links table with no fields, in both encoders.
C20_EmptySourceHasNoFields ==
    \A o \in EncoderOutputs :
        /\ (o.events.built /\ TotalEvents(batch) = 0) => o.events.fields = <<>>
        /\ (o.links.built /\ TotalLinks(batch) = 0) => o.links.fields = <<>>

----------------------------------------------------------------------------
(* The buffers of the envelope (Spec). *)

\* The batch holds one span, without events and links.
SingleSpanWithoutChildren ==
    Len(batch) = 1 /\ TotalEvents(batch) = 0 /\ TotalLinks(batch) = 0

\* C22: for a batch in which no span has an event (a link), the events
\* (links) buffer of the envelope an encoder returns is empty; for a single
\* span without children both buffers are empty while the spans stream
\* holds 1 row and no id column.
C22_NoChildrenEmptyBuffers ==
    \A o \in EncoderOutputs :
        o.status = "ok" =>
            /\ TotalEvents(batch) = 0 => EnvelopeOf(o).events = <<>>
            /\ TotalLinks(batch) = 0 => EnvelopeOf(o).links = <<>>
            /\ SingleSpanWithoutChildren =>
                  /\ ColumnsOfLength(o.spans, 1)
                  /\ IdFieldIndexes(o.spans) = {}

----------------------------------------------------------------------------
(* deserialize (arrow/mod.rs) and SpecDecode: deserialize applied to an    *)
(* envelope whose three buffers were written by serialize.                 *)

\* Number of fields and of rows of the tables written into the buffers.
MaxDecodeColumns == 2
MaxDecodeRows == 2

\* serialize(stats, fields, columns): no byte at all for an empty field
\* list, else the probe, RecordBatch::try_new and the IPC stream.
serialize(enabled, fields, columns) ==
    IF fields = <<>>
    THEN [status |-> "ok", buf |-> <<>>]
    ELSE IF ReportPanics(enabled, fields, columns)
    THEN [status |-> "panic", buf |-> <<>>]
    ELSE IF RecordBatchTryNew(fields, columns) = "error"
    THEN [status |-> "error", buf |-> <<>>]
    ELSE [status |-> "ok", buf |-> StreamWriterBytes(Table(fields, columns))]

\* What one reader has read: nothing, or the record batch of a stream.
NoBatch == [read |-> FALSE, num_columns |-> 0, num_rows |-> 0]
ReadBatch(columns) ==
    [read |-> TRUE,
     num_columns |-> Len(columns),
     num_rows |-> IF columns = <<>> THEN 0 ELSE Len(columns[1].values)]

\* StreamReader::try_new(buf).expect(..), reader.next().unwrap().unwrap()
\* and assert!(batch.num_columns() > 0) on one buffer: try_new fails when
\* the buffer does not start with a schema message, next() yields None
\* when no record batch follows, the assertion fails on a batch without
\* columns.
StreamReaderPanics(buf) ==
    \/ buf = <<>>
    \/ buf[1].message # "schema"
    \/ Len(buf) < 2
    \/ buf[2].message # "batch"
    \/ buf[2].columns = <<>>

StreamReaderBatch(buf) == ReadBatch(buf[2].columns)

\* A reader is opened for a buffer under this condition, the code's
\* `if !buf.is_empty()`.
ReaderGuard(buf) == buf # <<>>

Decoded(status, spans, events, links) ==
    [status |-> status, spans |-> spans, events |-> events, links |-> links]

\* deserialize(buf, bench_result): the reader of the spans buffer is opened
\* unconditionally, the readers of the events and links buffers only for a
\* non-empty buffer; every expect, unwrap and assert is a panic.
deserialize(resource_events) ==
    IF StreamReaderPanics(resource_events.spans)
    THEN Decoded("panic", NoBatch, NoBatch, NoBatch)
    ELSE IF ReaderGuard(resource_events.events) /\ StreamReaderPanics(resource_events.events)
    THEN Decoded("panic", NoBatch, NoBatch, NoBatch)
    ELSE IF ReaderGuard(resource_events.links) /\ StreamReaderPanics(resource_events.links)
    THEN Decoded("panic", NoBatch, NoBatch, NoBatch)
    ELSE Decoded("ok",
                 StreamReaderBatch(resource_events.spans),
                 IF ReaderGuard(resource_events.events)
                 THEN StreamReaderBatch(resource_events.events) ELSE NoBatch,
                 IF ReaderGuard(resource_events.links)
                 THEN StreamReaderBatch(resource_events.links) ELSE NoBatch)

\* The buffers serialize returns for tables of n_fields UInt32 fields and
\* n_rows rows.
DecodeTableBuffer(n_fields, n_rows) ==
    serialize(stats_enabled,
              [i \in 1..n_fields |-> Field(HexDigits[i], "UInt32", FALSE)],
              [i \in 1..n_fields |-> Column("UInt32", [r \in 1..n_rows |-> U32Cell(r)])]).buf

DecodeBuffers ==
    {DecodeTableBuffer(n_fields, n_rows) :
        n_fields \in 0..MaxDecodeColumns, n_rows \in 0..MaxDecodeRows}

InitDecode ==
    /\ InferIdle /\ DictIdle /\ EncIdle /\ FieldIdle /\ BenchIdle
    /\ envelope \in {ResourceEvents(spans_buf, events_buf, links_buf) :
                        spans_buf \in DecodeBuffers, events_buf \in DecodeBuffers,
                        links_buf \in DecodeBuffers}
    /\ decoded = NotRun

Deserialize ==
    /\ decoded.status = "NotRun"
    /\ decoded' = deserialize(envelope)
    /\ UNCHANGED <<envelope, inferVars, dictVars, encVars, fieldVars, benchVars>>

NextDecode == Deserialize

SpecDecode == InitDecode /\ [][NextDecode]_vars

\* C23: deserialize opens a reader only for the non-empty buffers and
\* asserts that each batch read has at least one column; an envelope whose
\* spans buffer is empty decodes without failure.
C23_EmptySpansBufferDecodes ==
    decoded.status # "NotRun" =>
        /\ decoded.status = "ok" =>
              /\ decoded.spans.read <=> envelope.spans # <<>>
              /\ decoded.events.read <=> envelope.events # <<>>
              /\ decoded.links.read <=> envelope.links # <<>>
              /\ \A b \in {decoded.spans, decoded.events, decoded.links} :
                    b.read => b.num_columns > 0
        /\ envelope.spans = <<>> => decoded.status = "ok"

----------------------------------------------------------------------------
(* The statistics probe (arrow/statistics.rs) and SpecBench: main.rs takes *)
(* chunk after chunk from the reader and hands each to the two benchmark   *)
(* functions, which encode the chunk and decode the envelope.              *)

\* Number of chunks the reader yields.
MaxChunks == 2

ColumnTypeOf(data_type) ==
    CASE data_type = "Boolean" -> "Boolean"
      [] data_type = "Int8" -> "I8"
      [] data_type = "Int32" -> "I32"
      [] data_type = "Int64" -> "I64"
      [] data_type = "UInt8" -> "U8"
      [] data_type = "UInt32" -> "U32"
      [] data_type = "UInt64" -> "U64"
      [] data_type = "Float64" -> "F64"
      [] data_type = "Binary" -> "Binary"
      [] data_type = "Utf8" -> "String"
      [] data_type \in DictionaryTypes -> "String"

\* column.is_valid(i), i counted from 1.
IsValid(values, i) == values[i] # NullCell

\* BooleanArray::values(): the bit-packed buffer, one byte per eight rows,
\* the bit of row r set when the row holds true.
BooleanBufferLen(values) == (Len(values) + 7) \div 8
RECURSIVE BooleanByte(_, _, _)
BooleanByte(values, byte, bit) ==
    IF bit > 7 \/ 8 * (byte - 1) + bit + 1 > Len(values) THEN 0
    ELSE (IF values[8 * (byte - 1) + bit + 1].kind = "bool"
             /\ values[8 * (byte - 1) + bit + 1].num = 1
          THEN 2^bit ELSE 0) + BooleanByte(values, byte, bit + 1)

\* The items an arm of report iterates over: the bytes of the buffer for a
\* Boolean column (column.values().iter()), the rows for any other type
\* (values(), iter() or keys()).
IteratedItems(data_type, values) ==
    IF data_type = "Boolean"
    THEN [b \in 1..BooleanBufferLen(values) |->
              [kind |-> "byte", num |-> BooleanByte(values, b, 0), str |-> ""]]
    ELSE values

\* The ColumnStatistics one arm of report builds for a column.
ColumnStatistics(data_type, values, items) ==
    [column_type |-> ColumnTypeOf(data_type),
     total_values |-> Len(values),
     cardinality |-> Cardinality({items[i] : i \in {j \in 1..Len(items) : IsValid(values, j)}}),
     missing_values |-> Cardinality({r \in 1..Len(values) : ~IsValid(values, r)}),
     dictionary |-> data_type \in DictionaryTypes,
     validity_map |-> [i \in 1..Len(items) |-> IsValid(values, i)]]

\* ColumnsStatistics::new(stats_enabled).columns
NoColumnsStatistics == <<>>

LastFieldNamed(fields, name) ==
    CHOOSE i \in 1..Len(fields) :
        /\ fields[i].name = name
        /\ \A j \in (i + 1)..Len(fields) : fields[j].name # name

\* The number of fields report inserts an entry for: none when the field
\* and column counts differ (the panic comes before the loop), else those
\* before the first field whose arm panics.
ReportedFields(fields, columns) ==
    IF Len(fields) # Len(columns) THEN 0
    ELSE SetMax({n \in 0..Len(fields) :
                    \A i \in 1..n : /\ fields[i].data_type \in ReportedTypes
                                    /\ columns[i].data_type = fields[i].data_type})

\* The entries of ColumnsStatistics::report(schema, array_data): nothing
\* when disabled, else self.columns.insert(field.name, ..) for every field
\* in turn (a later field of the same name replaces the entry).
ReportEntries(enabled, fields, columns) ==
    IF ~enabled THEN NoColumnsStatistics
    ELSE [name \in {fields[i].name : i \in 1..Len(fields)} |->
              ColumnStatistics(fields[LastFieldNamed(fields, name)].data_type,
                               columns[LastFieldNamed(fields, name)].values,
                               IteratedItems(fields[LastFieldNamed(fields, name)].data_type,
                                             columns[LastFieldNamed(fields, name)].values))]

\* ColumnsStatistics::report(schema, array_data): the entries it has
\* inserted when it returns or panics.
report(enabled, fields, columns) ==
    ReportEntries(enabled, SubSeq(fields, 1, ReportedFields(fields, columns)), columns)

ReportTable(enabled, table) ==
    IF table.built THEN report(enabled, table.fields, table.columns) ELSE NoColumnsStatistics

\* StatisticsReporter::next_batch pushes this BatchStatistics.
NewBatchStatistics(enabled) ==
    [stats_enabled |-> enabled,
     span_columns |-> NoColumnsStatistics,
     event_columns |-> NoColumnsStatistics,
     link_columns |-> NoColumnsStatistics]

\* The BatchStatistics after an encoder returned or panicked: the tables
\* handed to stats.report are those the outcome holds.
BatchStatisticsOf(enabled, outcome) ==
    [stats_enabled |-> enabled,
     span_columns |-> ReportTable(enabled, outcome.spans),
     event_columns |-> ReportTable(enabled, outcome.events),
     link_columns |-> ReportTable(enabled, outcome.links)]

\* The last BatchStatistics of a reporter replaced.
WithLastBatch(batches, batch_stats) ==
    [batches EXCEPT ![Len(batches)] = batch_stats]

\* The attribute maps of the spans of the chunks: none, the empty map, or
\* a Bool, a number or a string under "k".
BenchSpanAttributes ==
    {NoAttributes} \cup
    {SomeAttributes(OneAttribute("k", x)) : x \in {Absent, JBool(TRUE), SmallU64, JString("v")}}

\* The chunks the reader yields: a span alone; two spans with any of the
\* attribute maps; two spans holding events and a link; two spans with
\* different keys; the floats 0.0 and -0.0; an unsigned value above the
\* signed range and a negative one; the largest signed value and a float;
\* six spans with the same string.
BenchBatches ==
    {<<NewSpan(NoAttributes, FALSE)>>, RepeatedStringBatch}
        \cup {<<ExampleSpan(a, 1, <<>>, <<>>), ExampleSpan(b, 2, <<>>, <<>>)>> :
                a \in BenchSpanAttributes, b \in BenchSpanAttributes}
        \cup {<<ExampleSpan(SomeAttributes(OneAttribute("k", SmallU64)), 1,
                            <<OneAttribute("k", SmallU64)>>, <<>>),
                ExampleSpan(SomeAttributes(OneAttribute("k", SmallU64)), 3,
                            <<>>, <<OneAttribute("k", JString("v"))>>)>>,
              <<ExampleSpan(SomeAttributes(OneAttribute("k", JBool(TRUE))), 1,
                            <<OneAttribute("k", JString("v"))>>, <<>>),
                ExampleSpan(SomeAttributes(OneAttribute("k", JBool(TRUE))), 3, <<>>, <<>>)>>,
              <<ExampleSpan(SomeAttributes(OneAttribute("k", SmallU64)), 1, <<>>, <<>>),
                ExampleSpan(SomeAttributes([key \in Keys |-> SmallU64]), 2, <<>>, <<>>)>>,
              <<ExampleSpan(SomeAttributes(OneAttribute("k", Float(0))), 1, <<>>, <<>>),
                ExampleSpan(SomeAttributes(OneAttribute("k", NegZero)), 2, <<>>, <<>>)>>,
              <<ExampleSpan(SomeAttributes(OneAttribute("k", BigU64)), 1, <<>>, <<>>),
                ExampleSpan(SomeAttributes(OneAttribute("k", NegI64)), 2, <<>>, <<>>)>>,
              <<ExampleSpan(SomeAttributes(OneAttribute("k", PosInt(I64Max))), 1, <<>>, <<>>),
                ExampleSpan(SomeAttributes(OneAttribute("k", HalfF64)), 2, <<>>, <<>>)>>}

InitBench ==
    /\ InferIdle /\ DictIdle /\ FieldIdle /\ DecodeIdle
    /\ batch = <<>>
    /\ pc = "chunk"
    /\ row_out = NotRun
    /\ col_out = NotRun
    /\ chunk = <<>>
    /\ chunks = 0
    /\ stats_enabled \in BOOLEAN
    /\ reporters = NoReporters

\* The reader yields a chunk that is appended to the spans of the chunks
\* before it.
NextChunk_KeepsSpans ==
    /\ pc = "chunk"
    /\ chunks < MaxChunks
    /\ chunk' \in BenchBatches
    /\ batch' = batch \o chunk'
    /\ chunks' = chunks + 1
    /\ reporters' = [row |-> Append(reporters.row, NewBatchStatistics(stats_enabled)),
                     col |-> Append(reporters.col, NewBatchStatistics(stats_enabled))]
    /\ row_out' = NotRun
    /\ col_out' = NotRun
    /\ envelope' = NoEnvelope
    /\ decoded' = NotRun
    /\ pc' = "row"
    /\ UNCHANGED <<stats_enabled, inferVars, dictVars, fieldVars>>

\* for_each(|chunk| ..): spans is collected from the chunk alone, and each
\* reporter pushes a fresh BatchStatistics (next_batch).
NextChunk ==
    /\ pc = "chunk"
    /\ chunks < MaxChunks
    /\ chunk' \in BenchBatches
    /\ batch' = chunk'
    /\ chunks' = chunks + 1
    /\ reporters' = [row |-> Append(reporters.row, NewBatchStatistics(stats_enabled)),
                     col |-> Append(reporters.col, NewBatchStatistics(stats_enabled))]
    /\ row_out' = NotRun
    /\ col_out' = NotRun
    /\ envelope' = NoEnvelope
    /\ decoded' = NotRun
    /\ pc' = "row"
    /\ UNCHANGED <<stats_enabled, inferVars, dictVars, fieldVars>>

\* What follows the call of an encoder in a benchmark function: `?` on the
\* result, then compress, decompress and arrow::deserialize of the buffer.
BenchEnvelope(outcome) == IF outcome.status = "ok" THEN EnvelopeOf(outcome) ELSE NoEnvelope
BenchDecoded(outcome) ==
    IF outcome.status = "ok" THEN deserialize(EnvelopeOf(outcome)) ELSE NotRun
BenchCompleted(outcome) ==
    outcome.status = "ok" /\ deserialize(EnvelopeOf(outcome)).status = "ok"

\* bench_arrow_with_row_oriented_data_source and what main does with its
\* result: panic!, or on to the column-oriented benchmark.
BenchRowOriented ==
    /\ pc = "row"
    /\ \E span_order \in KeyOrders(InferredKeys(infer_span_attribute_schema(batch))),
          event_order \in KeyOrders(InferredKeys(infer_event_attribute_schema(batch).types)),
          link_order \in KeyOrders(InferredKeys(infer_link_attribute_schema(batch).types)) :
          row_out' = serialize_row_oriented_data_source(stats_enabled, batch, span_order,
                                                        event_order, link_order)
    /\ reporters' = [reporters EXCEPT
                        !.row = WithLastBatch(@, BatchStatisticsOf(stats_enabled, row_out'))]
    /\ envelope' = BenchEnvelope(row_out')
    /\ decoded' = BenchDecoded(row_out')
    /\ pc' = IF BenchCompleted(row_out') THEN "col" ELSE "aborted"
    /\ UNCHANGED <<batch, col_out, chunk, chunks, stats_enabled, inferVars, dictVars, fieldVars>>

\* bench_arrow_with_column_oriented_data_source and what main does with
\* its result: panic!, or on to the next chunk.
BenchColumnOriented ==
    /\ pc = "col"
    /\ \E span_order \in KeyOrders(InferredKeys(infer_span_attribute_schema(batch))),
          event_order \in KeyOrders(InferredKeys(infer_event_attribute_schema(batch).types)),
          link_order \in KeyOrders(InferredKeys(infer_link_attribute_schema(batch).types)) :
          col_out' = serialize_column_oriented_data_source(stats_enabled, batch, span_order,
                                                           event_order, link_order)
    /\ reporters' = [reporters EXCEPT
                        !.col = WithLastBatch(@, BatchStatisticsOf(stats_enabled, col_out'))]
    /\ envelope' = BenchEnvelope(col_out')
    /\ decoded' = BenchDecoded(col_out')
    /\ pc' = IF BenchCompleted(col_out') THEN "chunk" ELSE "aborted"
    /\ UNCHANGED <<batch, row_out, chunk, chunks, stats_enabled, inferVars, dictVars, fieldVars>>

NextBench ==
    \/ NextChunk
    \/ BenchRowOriented
    \/ BenchColumnOriented

SpecBench == InitBench /\ [][NextBench]_vars

\* The outcome of the benchmark function that ran last on the chunk.
LastOutcome == IF col_out.status # "NotRun" THEN col_out ELSE row_out

\* C24: round trip: encoding a batch and decoding the result yields three
\* record batches whose column counts are those of the emitted schemas and
\* whose row counts are the number of spans, of events and of links.
C24_RoundTrip ==
    LastOutcome.status # "NotRun" =>
        /\ LastOutcome.status = "ok"
        /\ decoded.status = "ok"
        /\ decoded.spans.read /\ decoded.events.read /\ decoded.links.read
        /\ decoded.spans.num_columns = Len(LastOutcome.spans.fields)
        /\ decoded.events.num_columns = Len(LastOutcome.events.fields)
        /\ decoded.links.num_columns = Len(LastOutcome.links.fields)
        /\ decoded.spans.num_rows = Len(batch)
        /\ decoded.events.num_rows = TotalEvents(batch)
        /\ decoded.links.num_rows = TotalLinks(batch)

----------------------------------------------------------------------------
(* The physical types of the fixed fields (Spec).                          *)

\* The physical type the fixed field of this name is expected to have.
ExpectedPhysicalType(name) ==
    CASE name \in {"trace_id", "span_id", "parent_span_id"} -> "Binary"
      [] name \in {"name", "trace_state"} -> "Utf8"
      [] name = "kind" -> "UInt8"
      [] name \in {"start_time_unix_nano", "end_time_unix_nano", "time_unix_nano"} -> "UInt64"
      [] name \in {"dropped_attributes_count", "dropped_events_count",
                   "dropped_links_count", "id"} -> "UInt32"

FixedFieldNames ==
    {"trace_id", "span_id", "parent_span_id", "name", "trace_state", "kind",
     "start_time_unix_nano", "end_time_unix_nano", "time_unix_nano",
     "dropped_attributes_count", "dropped_events_count", "dropped_links_count", "id"}

PhysicalTypesAsExpected(table) ==
    \A i \in 1..Len(table.fields) :
        table.fields[i].name \in FixedFieldNames =>
            /\ table.fields[i].data_type = ExpectedPhysicalType(table.fields[i].name)
            /\ table.columns[i].data_type = ExpectedPhysicalType(table.fields[i].name)

\* C25: in the schemas of the spans table and of the links table of both
\* encoders, trace_id, span_id and parent_span_id are binary, name and
\* trace_state UTF-8, kind an unsigned 8-bit integer, the timestamps
\* unsigned 64-bit, the dropped counters and id unsigned 32-bit.
C25_FixedFieldPhysicalTypes ==
    \A o \in EncoderOutputs :
        o.status = "ok" =>
            /\ PhysicalTypesAsExpected(o.spans)
            /\ PhysicalTypesAsExpected(o.links)

----------------------------------------------------------------------------
(* The statistics probe and the chunks of SpecBench.                       *)

\* The outcome of each encoder on the spans, for given iteration orders,
\* does not depend on the probe being enabled.
ProbeIsObserver(spans) ==
    \A span_order \in KeyOrders(InferredKeys(infer_span_attribute_schema(spans))),
       event_order \in KeyOrders(InferredKeys(infer_event_attribute_schema(spans).types)),
       link_order \in KeyOrders(InferredKeys(infer_link_attribute_schema(spans).types)) :
        /\ serialize_row_oriented_data_source(TRUE, spans, span_order, event_order, link_order)
             = serialize_row_oriented_data_source(FALSE, spans, span_order, event_order,
                                                  link_order)
        /\ serialize_column_oriented_data_source(TRUE, spans, span_order, event_order,
                                                 link_order)
             = serialize_column_oriented_data_source(FALSE, spans, span_order, event_order,
                                                     link_order)

\* The outcomes an encoder can return for the spans, the probe set to
\* enabled.
RowOutcomes(enabled, spans) ==
    {serialize_row_oriented_data_source(enabled, spans, span_order, event_order, link_order) :
        span_order \in KeyOrders(InferredKeys(infer_span_attribute_schema(spans))),
        event_order \in KeyOrders(InferredKeys(infer_event_attribute_schema(spans).types)),
        link_order \in KeyOrders(InferredKeys(infer_link_attribute_schema(spans).types))}
ColumnOutcomes(enabled, spans) ==
    {serialize_column_oriented_data_source(enabled, spans, span_order, event_order,
                                           link_order) :
        span_order \in KeyOrders(InferredKeys(infer_span_attribute_schema(spans))),
        event_order \in KeyOrders(InferredKeys(infer_event_attribute_schema(spans).types)),
        link_order \in KeyOrders(InferredKeys(infer_link_attribute_schema(spans).types))}

\* C26: the statistics probe is a pure observer: the envelope returned, or
\* the failure, of either encoder on a batch is the same with statistics
\* enabled as with statistics disabled.
C26_ProbeIsPureObserver ==
    /\ row_out.status # "NotRun" =>
          /\ row_out \in RowOutcomes(~stats_enabled, batch)
          /\ envelope = NoEnvelope \/ col_out.status # "NotRun"
                \/ \E o \in RowOutcomes(~stats_enabled, batch) : envelope = EnvelopeOf(o)
    /\ col_out.status # "NotRun" =>
          /\ col_out \in ColumnOutcomes(~stats_enabled, batch)
          /\ envelope = NoEnvelope
                \/ \E o \in ColumnOutcomes(~stats_enabled, batch) : envelope = EnvelopeOf(o)
    /\ pc # "chunk" => ProbeIsObserver(batch)

\* Statistics are enabled and both encoders have returned a buffer for a
\* chunk with a Boolean attribute column, which the probe has recorded.
C26_Witness ==
    /\ stats_enabled
    /\ row_out.status = "ok"
    /\ col_out.status = "ok"
    /\ \E i \in 1..Len(row_out.spans.fields) : row_out.spans.fields[i].data_type = "Boolean"
    /\ \E name \in DOMAIN reporters.row[Len(reporters.row)].span_columns :
          reporters.row[Len(reporters.row)].span_columns[name].column_type = "Boolean"

\* The keys some row holds a value (null included) for.
KeysHeld(rows) ==
    {k \in Keys : \E r \in 1..Len(rows) : rows[r].is_some /\ rows[r].map[k] # Absent}

OnlyKeysOf(table, rows) ==
    \A k \in Keys : AttributeFieldIndexes(table, k) # {} => k \in KeysHeld(rows)

\* C27: no encoder state crosses batches: what an encoder produces for a
\* chunk is what it produces for that chunk alone, whatever chunks came
\* before; a key seen only in an earlier chunk has no field in the schema.
C27_NoStateAcrossBatches ==
    /\ row_out.status # "NotRun" => row_out \in RowOutcomes(stats_enabled, chunk)
    /\ col_out.status # "NotRun" => col_out \in ColumnOutcomes(stats_enabled, chunk)
    /\ \A o \in EncoderOutputs :
          o.status = "ok" =>
              /\ ColumnsOfLength(o.spans, Len(chunk))
              /\ OnlyKeysOf(o.spans, MapSeq(chunk, SpanAttributesOf))
              /\ OnlyKeysOf(o.events, MapSeq(EventRows(chunk, 1), RowItemAttributes))
              /\ OnlyKeysOf(o.links, MapSeq(LinkRows(chunk, 1), RowItemAttributes))

\* Both encoders have returned a buffer for a second chunk whose spans
\* hold no attribute, after a first chunk whose spans table had the
\* column attributes_k.
C27_Witness ==
    /\ chunks = 2
    /\ stats_enabled
    /\ row_out.status = "ok"
    /\ col_out.status = "ok"
    /\ "attributes_k" \in DOMAIN reporters.row[1].span_columns
    /\ "attributes_k" \in DOMAIN reporters.col[1].span_columns
    /\ KeysHeld(MapSeq(chunk, SpanAttributesOf)) = {}

----------------------------------------------------------------------------
(* The pivot of the column-oriented encoder, row after row (Spec).         *)

\* The data columns after the loop of to_data_columns has processed the
\* first n spans of the batch (with their events and links).
PivotAfter(spans, n) ==
    PivotSpans(SubSeq(spans, 1, n), 1,
        [status |-> "ok",
         spans |-> build_attribute_columns(infer_span_attribute_schema(spans)),
         events |-> build_attribute_columns(infer_event_attribute_schema(spans).types),
         links |-> build_attribute_columns(infer_link_attribute_schema(spans).types)])

DataColumnsOfLength(attributes_column, n) ==
    \A k \in Keys :
        attributes_column[k] # NoColumn => Len(attributes_column[k].values) = n

\* C28: after the pivot has processed any row, every attribute column of
\* the table has the same length, the number of rows processed so far,
\* and the padding step never computes a negative pad length.
C28_PivotKeepsColumnsRectangular ==
    col_out.status # "NotRun" =>
        \A n \in 1..Len(batch) :
            /\ PivotAfter(batch, n).status # "underflow"
            /\ PivotAfter(batch, n).status = "ok" =>
                  /\ DataColumnsOfLength(PivotAfter(batch, n).spans, n)
                  /\ DataColumnsOfLength(PivotAfter(batch, n).events,
                                         TotalEvents(SubSeq(batch, 1, n)))
                  /\ DataColumnsOfLength(PivotAfter(batch, n).links,
                                         TotalLinks(SubSeq(batch, 1, n)))

----------------------------------------------------------------------------
(* The assertion of min_num_bits_to_represent (SpecInfer).                 *)

\* C29: the assertion x > 0 of min_num_bits_to_represent holds on every
\* call: an attribute of inferred type String that is selected for
\* dictionary encoding has a non-empty set of distinct strings, whatever
\* the sequence of observed values.
C29_DictionaryHasDistinctString ==
    \A k \in Keys :
        (/\ attribute_types[k] # NoFieldInfo
         /\ attribute_types[k].field_type = "String"
         /\ is_dictionary(Cardinality(attribute_types[k].dictionary_values),
                          attribute_types[k].non_null_count))
            => ~MinNumBitsPanics(Cardinality(attribute_types[k].dictionary_values))

----------------------------------------------------------------------------
(* What the statistics probe records (SpecBench).                          *)

ClearedBits(validity_map) ==
    Cardinality({i \in 1..Len(validity_map) : ~validity_map[i]})

ConsistentColumnStatistics(columns_statistics, row_count) ==
    \A name \in DOMAIN columns_statistics :
        /\ Len(columns_statistics[name].validity_map) = columns_statistics[name].total_values
        /\ ClearedBits(columns_statistics[name].validity_map)
             = columns_statistics[name].missing_values
        /\ columns_statistics[name].total_values = row_count
        /\ columns_statistics[name].cardinality
             <= columns_statistics[name].total_values - columns_statistics[name].missing_values

ConsistentBatchStatistics(batch_stats, spans) ==
    /\ ConsistentColumnStatistics(batch_stats.span_columns, Len(spans))
    /\ ConsistentColumnStatistics(batch_stats.event_columns, TotalEvents(spans))
    /\ ConsistentColumnStatistics(batch_stats.link_columns, TotalLinks(spans))

\* C30: for every column recorded by ColumnsStatistics::report, Boolean
\* and dictionary columns included, the validity map has total_values
\* bits, its cleared bits number missing_values, total_values is the row
\* count of the table and cardinality <= total_values - missing_values.
C30_StatisticsConsistent ==
    chunks > 0 =>
        /\ ConsistentBatchStatistics(reporters.row[Len(reporters.row)], batch)
        /\ ConsistentBatchStatistics(reporters.col[Len(reporters.col)], batch)

============================================================================
